---- MODULE Spec2Model ----
(***************************************************************************)
(* Data-consistency subsystem of the delivery tracker: the hierarchical    *)
(* soft-delete cascade (ServiceCenter -> Project -> Sprint -> Task /       *)
(* transversal activities) and the derived task metrics that follow a      *)
(* project's workload ratio.                                               *)
(*                                                                         *)
(* Numbers: storyPoints and the workload ratio are integers; technicalLoad,*)
(* timeSpent, timeRemaining and delta are kept in hundredths (the code     *)
(* rounds them to two decimals) and progress is an integer percentage.     *)
(***************************************************************************)
EXTENDS Integers, Sequences, FiniteSets, TLC

VARIABLES centers, projects, sprints, tasks, sprintActs, projectActs, last

vars == <<centers, projects, sprints, tasks, sprintActs, projectActs, last>>

(* ------------------------------ bounds --------------------------------- *)

\* number of Task identifiers
NumTasks == 2
\* number of Sprint identifiers
NumSprints == 1
\* at most this many store writes fail inside one operation
MaxFailures == 1
\* at most this many tasks are created on top of the seeded store
MaxCreated == 1

CenterIds == {1}
ProjectIds == {1}
SprintIds == 1..NumSprints
TaskIds == 1..NumTasks
SprintActIds == {1}
ProjectActIds == {1}

\* a string that is not a valid ObjectId ("invalid_id_format")
MalformedId == 0
\* a well-formed ObjectId that no document carries
NonexistentId == 99

BadIds == {MalformedId, NonexistentId}

(* ------------------------------ helpers -------------------------------- *)

Min(S) == CHOOSE x \in S : \A y \in S : x <= y

RECURSIVE SetToSeq(_)
\* find() returns the matching documents in identifier order
SetToSeq(S) == IF S = {} THEN <<>> ELSE <<Min(S)>> \o SetToSeq(S \ {Min(S)})

Range(s) == {s[i] : i \in 1..Len(s)}

(* --------------------------- the entity store --------------------------- *)

\* The collections of the document store, threaded through the operations
\* together with the trace of one call: `calls` (engine methods entered),
\* `attempts` (save() calls issued), `writes` (save() calls that succeeded),
\* `ok` (the boolean the last engine method returned), `result` (the map a
\* query returned, empty for every other call).
World ==
    [centers |-> centers, projects |-> projects, sprints |-> sprints,
     tasks |-> tasks, sprintActs |-> sprintActs, projectActs |-> projectActs,
     calls |-> <<>>, attempts |-> <<>>, writes |-> <<>>, ok |-> FALSE,
     result |-> <<>>]

\* variant: the lookup forgets the is_deleted filter
ActiveTaskAnyState(w, id) == id \in DOMAIN w.tasks
ActiveSprintAnyState(w, id) == id \in DOMAIN w.sprints

\* find_one(Task, id & is_deleted == False)
ActiveTask(w, id) == id \in DOMAIN w.tasks /\ ~w.tasks[id].is_deleted
ActiveSprint(w, id) == id \in DOMAIN w.sprints /\ ~w.sprints[id].is_deleted
ActiveProject(w, id) == id \in DOMAIN w.projects /\ ~w.projects[id].is_deleted
ActiveCenter(w, id) == id \in DOMAIN w.centers /\ ~w.centers[id].is_deleted
ActiveSprintAct(w, id) == id \in DOMAIN w.sprintActs /\ ~w.sprintActs[id].is_deleted
ActiveProjectAct(w, id) == id \in DOMAIN w.projectActs /\ ~w.projectActs[id].is_deleted

\* find(Task, sprintId == s & is_deleted == False), in identifier order
TasksOfSprint(w, s) ==
    SetToSeq({t \in DOMAIN w.tasks : w.tasks[t].sprintId = s /\ ~w.tasks[t].is_deleted})
ActsOfSprint(w, s) ==
    SetToSeq({a \in DOMAIN w.sprintActs :
                 w.sprintActs[a].sprintId = s /\ ~w.sprintActs[a].is_deleted})
SprintsOfProject(w, p) ==
    SetToSeq({s \in DOMAIN w.sprints :
                 w.sprints[s].projectId = p /\ ~w.sprints[s].is_deleted})
ActsOfProject(w, p) ==
    SetToSeq({a \in DOMAIN w.projectActs :
                 w.projectActs[a].project_id = p /\ ~w.projectActs[a].is_deleted})
ProjectsOfCenter(w, c) ==
    SetToSeq({p \in DOMAIN w.projects :
                 w.projects[p].centerId = c /\ ~w.projects[p].is_deleted})

(* ------------------------ CascadeDeletionEngine ------------------------- *)

\* the document matches the filter is_cascade_deleted == True: it carries the
\* field and the field is true
IsCascadeDeleted(doc) ==
    "is_cascade_deleted" \in DOMAIN doc /\ doc.is_cascade_deleted

\* the document as the engine saves it: is_deleted is set, and
\* is_cascade_deleted is stored on the documents whose class declares the
\* field (Task and ServiceCenter; Project, Sprint and both activity classes
\* declare is_deleted only)
MarkDeleted(doc, isCascade) ==
    IF "is_cascade_deleted" \in DOMAIN doc
      THEN [doc EXCEPT !.is_deleted = TRUE, !.is_cascade_deleted = isCascade]
      ELSE [doc EXCEPT !.is_deleted = TRUE]

\* variant: deleting a task also marks the sprint it belongs to
EngineDeleteTaskMarksSprint(w, id, isCascade, F) ==
    LET w0 == [w EXCEPT !.calls = Append(@, <<"deleteTask", id, isCascade>>)]
    IN  IF ~ActiveTask(w0, id)
          THEN [w0 EXCEPT !.ok = FALSE]
          ELSE IF <<"task", id>> \in F
            THEN [w0 EXCEPT !.attempts = Append(@, <<"task", id>>), !.ok = FALSE]
            ELSE [w0 EXCEPT !.tasks[id].is_deleted = TRUE,
                            !.tasks[id].is_cascade_deleted = isCascade,
                            !.sprints[w.tasks[id].sprintId].is_deleted = TRUE,
                            !.attempts = Append(@, <<"task", id>>),
                            !.writes = Append(@, <<"task", id>>),
                            !.ok = TRUE]

\* deleteTask(id, isCascade): false when the task is absent under the
\* non-deleted filter (a malformed id is no document's id) or when save()
\* fails; else both flags are set and the task is written once.
EngineDeleteTask(w, id, isCascade, F) ==
    LET w0 == [w EXCEPT !.calls = Append(@, <<"deleteTask", id, isCascade>>)]
    IN  IF ~ActiveTask(w0, id)
          THEN [w0 EXCEPT !.ok = FALSE]
          ELSE IF <<"task", id>> \in F
            THEN [w0 EXCEPT !.attempts = Append(@, <<"task", id>>), !.ok = FALSE]
            ELSE [w0 EXCEPT !.tasks[id].is_deleted = TRUE,
                            !.tasks[id].is_cascade_deleted = isCascade,
                            !.attempts = Append(@, <<"task", id>>),
                            !.writes = Append(@, <<"task", id>>),
                            !.ok = TRUE]

\* deleteTransversalActivity(id) for a sprint-level activity (symmetric)
EngineDeleteSprintAct(w, id, isCascade, F) ==
    LET w0 == [w EXCEPT !.calls = Append(@, <<"deleteSprintAct", id, isCascade>>)]
    IN  IF ~ActiveSprintAct(w0, id)
          THEN [w0 EXCEPT !.ok = FALSE]
          ELSE IF <<"sprintAct", id>> \in F
            THEN [w0 EXCEPT !.attempts = Append(@, <<"sprintAct", id>>), !.ok = FALSE]
            ELSE [w0 EXCEPT !.sprintActs[id] = MarkDeleted(@, isCascade),
                            !.attempts = Append(@, <<"sprintAct", id>>),
                            !.writes = Append(@, <<"sprintAct", id>>),
                            !.ok = TRUE]

\* deleteTransversalActivity(id) for a project-level activity (symmetric)
EngineDeleteProjectAct(w, id, isCascade, F) ==
    LET w0 == [w EXCEPT !.calls = Append(@, <<"deleteProjectAct", id, isCascade>>)]
    IN  IF ~ActiveProjectAct(w0, id)
          THEN [w0 EXCEPT !.ok = FALSE]
          ELSE IF <<"projectAct", id>> \in F
            THEN [w0 EXCEPT !.attempts = Append(@, <<"projectAct", id>>), !.ok = FALSE]
            ELSE [w0 EXCEPT !.projectActs[id] = MarkDeleted(@, isCascade),
                            !.attempts = Append(@, <<"projectAct", id>>),
                            !.writes = Append(@, <<"projectAct", id>>),
                            !.ok = TRUE]

RECURSIVE CascadeTasksStopAtFailure(_, _, _)
\* variant: the loop over the children ends at the first child that fails
CascadeTasksStopAtFailure(w, ids, F) ==
    IF ids = <<>> THEN w
    ELSE LET w1 == EngineDeleteTask(w, Head(ids), TRUE, F)
         IN  IF w1.ok THEN CascadeTasksStopAtFailure(w1, Tail(ids), F) ELSE w1

RECURSIVE CascadeTasks(_, _, _)
\* for task in tasks: await self.delete_task(task.id, is_cascade=True)
CascadeTasks(w, ids, F) ==
    IF ids = <<>> THEN w
    ELSE CascadeTasks(EngineDeleteTask(w, Head(ids), TRUE, F), Tail(ids), F)

RECURSIVE CascadeSprintActs(_, _, _)
CascadeSprintActs(w, ids, F) ==
    IF ids = <<>> THEN w
    ELSE CascadeSprintActs(EngineDeleteSprintAct(w, Head(ids), TRUE, F), Tail(ids), F)

RECURSIVE CascadeProjectActs(_, _, _)
CascadeProjectActs(w, ids, F) ==
    IF ids = <<>> THEN w
    ELSE CascadeProjectActs(EngineDeleteProjectAct(w, Head(ids), TRUE, F), Tail(ids), F)

\* variant: the tasks of the sprint are flagged by one update over every
\* task of the sprint, deleted or not
EngineDeleteSprintBulk(w, id, isCascade, F) ==
    LET w0 == [w EXCEPT !.calls = Append(@, <<"deleteSprint", id, isCascade>>)]
    IN  IF ~ActiveSprint(w0, id)
          THEN [w0 EXCEPT !.ok = FALSE]
          ELSE
            LET w1 == [w0 EXCEPT !.tasks = [t \in DOMAIN w0.tasks |->
                                    IF w0.tasks[t].sprintId = id
                                      THEN MarkDeleted(w0.tasks[t], TRUE)
                                      ELSE w0.tasks[t]]]
                w2 == CascadeSprintActs(w1, ActsOfSprint(w0, id), F)
            IN  IF <<"sprint", id>> \in F
                  THEN [w2 EXCEPT !.attempts = Append(@, <<"sprint", id>>), !.ok = FALSE]
                  ELSE [w2 EXCEPT !.sprints[id] = MarkDeleted(@, isCascade),
                                  !.attempts = Append(@, <<"sprint", id>>),
                                  !.writes = Append(@, <<"sprint", id>>),
                                  !.ok = TRUE]

\* variant: the sprint is marked and saved before its children are deleted
EngineDeleteSprintMarkFirst(w, id, isCascade, F) ==
    LET w0 == [w EXCEPT !.calls = Append(@, <<"deleteSprint", id, isCascade>>)]
    IN  IF ~ActiveSprint(w0, id)
          THEN [w0 EXCEPT !.ok = FALSE]
          ELSE
            LET saved == <<"sprint", id>> \notin F
                w1 == IF saved
                        THEN [w0 EXCEPT !.sprints[id] = MarkDeleted(@, isCascade),
                                        !.attempts = Append(@, <<"sprint", id>>),
                                        !.writes = Append(@, <<"sprint", id>>)]
                        ELSE [w0 EXCEPT !.attempts = Append(@, <<"sprint", id>>)]
                w2 == CascadeTasks(w1, TasksOfSprint(w0, id), F)
                w3 == CascadeSprintActs(w2, ActsOfSprint(w0, id), F)
            IN  [w3 EXCEPT !.ok = saved]

\* deleteSprintWithCascade(id, isCascade): children first, whatever each
\* child call returns, then the sprint itself; the result is the sprint's.
EngineDeleteSprint(w, id, isCascade, F) ==
    LET w0 == [w EXCEPT !.calls = Append(@, <<"deleteSprint", id, isCascade>>)]
    IN  IF ~ActiveSprint(w0, id)
          THEN [w0 EXCEPT !.ok = FALSE]
          ELSE
            LET w1 == CascadeTasks(w0, TasksOfSprint(w0, id), F)
                w2 == CascadeSprintActs(w1, ActsOfSprint(w0, id), F)
            IN  IF <<"sprint", id>> \in F
                  THEN [w2 EXCEPT !.attempts = Append(@, <<"sprint", id>>), !.ok = FALSE]
                  ELSE [w2 EXCEPT !.sprints[id] = MarkDeleted(@, isCascade),
                                  !.attempts = Append(@, <<"sprint", id>>),
                                  !.writes = Append(@, <<"sprint", id>>),
                                  !.ok = TRUE]

RECURSIVE CascadeSprints(_, _, _)
\* for sprint in sprints: await self.delete_sprint_with_cascade(sprint.id, is_cascade=True)
CascadeSprints(w, ids, F) ==
    IF ids = <<>> THEN w
    ELSE CascadeSprints(EngineDeleteSprint(w, Head(ids), TRUE, F), Tail(ids), F)

\* variant: the project is marked and saved before its children are deleted
EngineDeleteProjectMarkFirst(w, id, isCascade, F) ==
    LET w0 == [w EXCEPT !.calls = Append(@, <<"deleteProject", id, isCascade>>)]
    IN  IF ~ActiveProject(w0, id)
          THEN [w0 EXCEPT !.ok = FALSE]
          ELSE
            LET saved == <<"project", id>> \notin F
                w1 == IF saved
                        THEN [w0 EXCEPT !.projects[id] = MarkDeleted(@, isCascade),
                                        !.attempts = Append(@, <<"project", id>>),
                                        !.writes = Append(@, <<"project", id>>)]
                        ELSE [w0 EXCEPT !.attempts = Append(@, <<"project", id>>)]
                w2 == CascadeSprints(w1, SprintsOfProject(w0, id), F)
                w3 == CascadeProjectActs(w2, ActsOfProject(w0, id), F)
            IN  [w3 EXCEPT !.ok = saved]

\* deleteProjectWithCascade(id, isCascade)
EngineDeleteProject(w, id, isCascade, F) ==
    LET w0 == [w EXCEPT !.calls = Append(@, <<"deleteProject", id, isCascade>>)]
    IN  IF ~ActiveProject(w0, id)
          THEN [w0 EXCEPT !.ok = FALSE]
          ELSE
            LET w1 == CascadeSprints(w0, SprintsOfProject(w0, id), F)
                w2 == CascadeProjectActs(w1, ActsOfProject(w0, id), F)
            IN  IF <<"project", id>> \in F
                  THEN [w2 EXCEPT !.attempts = Append(@, <<"project", id>>), !.ok = FALSE]
                  ELSE [w2 EXCEPT !.projects[id] = MarkDeleted(@, isCascade),
                                  !.attempts = Append(@, <<"project", id>>),
                                  !.writes = Append(@, <<"project", id>>),
                                  !.ok = TRUE]

RECURSIVE CascadeProjects(_, _, _)
\* for project in projects: await self.delete_project_with_cascade(project.id, is_cascade=True)
CascadeProjects(w, ids, F) ==
    IF ids = <<>> THEN w
    ELSE CascadeProjects(EngineDeleteProject(w, Head(ids), TRUE, F), Tail(ids), F)

\* deleteServiceCenterWithCascade(id)
EngineDeleteServiceCenter(w, id, F) ==
    LET w0 == [w EXCEPT !.calls = Append(@, <<"deleteServiceCenter", id, FALSE>>)]
    IN  IF ~ActiveCenter(w0, id)
          THEN [w0 EXCEPT !.ok = FALSE]
          ELSE
            LET w1 == CascadeProjects(w0, ProjectsOfCenter(w0, id), F)
            IN  IF <<"center", id>> \in F
                  THEN [w1 EXCEPT !.attempts = Append(@, <<"center", id>>), !.ok = FALSE]
                  ELSE [w1 EXCEPT !.centers[id].is_deleted = TRUE,
                                  !.attempts = Append(@, <<"center", id>>),
                                  !.writes = Append(@, <<"center", id>>),
                                  !.ok = TRUE]

\* variant: the query filters on is_deleted instead of is_cascade_deleted
GetCascadeDeletedElementsAnyDeleted(w, entityType, id) ==
    IF entityType # "project" THEN <<>>
    ELSE
      LET sprintIds == {s \in DOMAIN w.sprints : w.sprints[s].projectId = id}
      IN  [sprints |-> {s \in sprintIds : w.sprints[s].is_deleted},
           tasks |-> {t \in DOMAIN w.tasks :
                         w.tasks[t].projectId = id /\ w.tasks[t].is_deleted},
           sprint_transversal_activities |->
               {a \in DOMAIN w.sprintActs :
                   w.sprintActs[a].sprintId \in sprintIds /\ w.sprintActs[a].is_deleted},
           project_transversal_activities |->
               {a \in DOMAIN w.projectActs :
                   w.projectActs[a].project_id = id /\ w.projectActs[a].is_deleted}]

\* getCascadeDeletedElements(entityType, id): for a project, each descendant
\* collection filtered by the parent id and is_cascade_deleted=true (the
\* sprint activities through the project's sprints, deleted or not); an
\* unknown entity type gives the empty map
GetCascadeDeletedElements(w, entityType, id) ==
    IF entityType # "project" THEN <<>>
    ELSE
      LET sprintIds == {s \in DOMAIN w.sprints : w.sprints[s].projectId = id}
      IN  [sprints |-> {s \in sprintIds : IsCascadeDeleted(w.sprints[s])},
           tasks |-> {t \in DOMAIN w.tasks :
                         w.tasks[t].projectId = id /\ IsCascadeDeleted(w.tasks[t])},
           sprint_transversal_activities |->
               {a \in DOMAIN w.sprintActs :
                   w.sprintActs[a].sprintId \in sprintIds
                   /\ IsCascadeDeleted(w.sprintActs[a])},
           project_transversal_activities |->
               {a \in DOMAIN w.projectActs :
                   w.projectActs[a].project_id = id
                   /\ IsCascadeDeleted(w.projectActs[a])}]

(* ----------------------------- MetricsEngine ---------------------------- *)

\* Optional[float] fields hold None until they are initialised
None == -1

\* story points a request may carry
StoryPointsDomain == {0, 10}
\* workload ratios a project update may carry (ProjectUpdate: ge=0)
RatioDomain == {0, 2, 3, 5}
\* timeSpent / timeRemaining values (hundredths) a task update may carry
TimeSpentDomain == {200}
TimeRemainingDomain == {100}

\* round(n / d) to the nearest integer, ties to even (Python's round), d > 0
RoundDiv(n, d) ==
    LET q == n \div d
        r == n % d
    IN  IF 2 * r < d THEN q
        ELSE IF 2 * r > d THEN q + 1
        ELSE IF q % 2 = 0 THEN q ELSE q + 1

\* variant: the progress is rounded to the nearest integer, not truncated
calculate_task_metricsRoundedProgress(task, ratio) ==
    LET spent == IF task.timeSpent # None THEN task.timeSpent ELSE 0
        remaining == IF task.timeRemaining # None THEN task.timeRemaining ELSE 0
        updated_time == spent + remaining
        progress_percentage ==
            IF updated_time = 0 THEN 0 ELSE RoundDiv(100 * spent, updated_time)
    IN  IF ratio = 0 \/ (updated_time # 0 /\ task.timeSpent = None)
          THEN [raised |-> TRUE, technical_load |-> 0, delta |-> 0, progress |-> 0]
          ELSE [raised |-> FALSE,
                technical_load |-> RoundDiv(100 * task.storyPoints, ratio),
                delta |-> RoundDiv(100 * task.storyPoints - updated_time * ratio, ratio),
                progress |-> progress_percentage]

\* calculate_task_metrics(task, trans_tech_ratio); a zero ratio raises
\* ZeroDivisionError, and a missing timeSpent next to a timeRemaining above
\* zero raises TypeError (None / float)
calculate_task_metrics(task, ratio) ==
    LET spent == IF task.timeSpent # None THEN task.timeSpent ELSE 0
        remaining == IF task.timeRemaining # None THEN task.timeRemaining ELSE 0
        updated_time == spent + remaining
        progress_percentage ==
            IF updated_time = 0 THEN 0 ELSE (100 * spent) \div updated_time
    IN  IF ratio = 0 \/ (updated_time # 0 /\ task.timeSpent = None)
          THEN [raised |-> TRUE, technical_load |-> 0, delta |-> 0, progress |-> 0]
          ELSE [raised |-> FALSE,
                technical_load |-> RoundDiv(100 * task.storyPoints, ratio),
                delta |-> RoundDiv(100 * task.storyPoints - updated_time * ratio, ratio),
                progress |-> progress_percentage]

(* ---------------------------- sprint metrics ---------------------------- *)

\* dates are day numbers, day 0 being a Monday: weekday() of day d is d % 7
RECURSIVE CountWeekdays(_, _)
\* while current_date < due.date(): weekdays += (current_date.weekday() < 5)
CountWeekdays(current_date, due) ==
    IF current_date < due
      THEN (IF current_date % 7 < 5 THEN 1 ELSE 0) + CountWeekdays(current_date + 1, due)
      ELSE 0

\* calculate_weekdays(start_date, due_date): the pair is swapped when the
\* start is after the due date
calculate_weekdays(start_date, due_date) ==
    IF start_date > due_date
      THEN CountWeekdays(due_date, start_date)
      ELSE CountWeekdays(start_date, due_date)

RECURSIVE calculate_story_pointsNotCancelled(_)
\* variant: the story points of CANCELLED tasks are left out of the sum
calculate_story_pointsNotCancelled(task_list) ==
    IF task_list = <<>> THEN 0
    ELSE (IF Head(task_list).status # "CANCEL" THEN Head(task_list).storyPoints ELSE 0)
           + calculate_story_pointsNotCancelled(Tail(task_list))

RECURSIVE calculate_story_points(_)
\* for task in tasks: total_story_points += task.storyPoints
calculate_story_points(task_list) ==
    IF task_list = <<>> THEN 0
    ELSE Head(task_list).storyPoints + calculate_story_points(Tail(task_list))

RECURSIVE SumStoryPointsNotCancelled(_)
\* calculate_progress: sum_story_points over the tasks that are not CANCELLED
SumStoryPointsNotCancelled(task_list) ==
    IF task_list = <<>> THEN 0
    ELSE (IF Head(task_list).status # "CANCEL" THEN Head(task_list).storyPoints ELSE 0)
           + SumStoryPointsNotCancelled(Tail(task_list))

RECURSIVE SumProgress(_)
\* calculate_progress: sum_progress over the tasks that are not CANCELLED
SumProgress(task_list) ==
    IF task_list = <<>> THEN 0
    ELSE (IF Head(task_list).status # "CANCEL"
            THEN Head(task_list).storyPoints
                   * (IF Head(task_list).progress # None THEN Head(task_list).progress ELSE 0)
            ELSE 0)
           + SumProgress(Tail(task_list))

\* max(a, b), as in max(1, sum_story_points) of calculate_progress
Max(a, b) == IF a > b THEN a ELSE b

\* calculate_progress(tasks), the returned float kept as the fraction
\* num / den: 100.0 for no task, else sum_progress / max(1, sum_story_points)
calculate_progress(task_list) ==
    IF task_list = <<>> THEN [num |-> 100, den |-> 1]
    ELSE [num |-> SumProgress(task_list),
          den |-> Max(1, SumStoryPointsNotCancelled(task_list))]

\* is_delivery_sprint_current(task, sprint_name) reads task.deliverySprint,
\* an attribute the Task model class does not declare: the read raises
\* AttributeError
DeliverySprintRaises(task) == "deliverySprint" \notin DOMAIN task

\* task.status == DONE and is_delivery_sprint_current(task, sprint_name); the
\* attribute is read for DONE tasks only
Delivered(task, sprint_name) ==
    /\ task.status = "DONE"
    /\ ~DeliverySprintRaises(task)
    /\ task.deliverySprint = sprint_name

RECURSIVE calculate_velocity(_, _)
\* the story points of the tasks that are DONE and delivered in this sprint
calculate_velocity(task_list, sprint_name) ==
    IF task_list = <<>> THEN 0
    ELSE (IF Delivered(Head(task_list), sprint_name)
            THEN Head(task_list).storyPoints ELSE 0)
           + calculate_velocity(Tail(task_list), sprint_name)

RECURSIVE calculate_total_time(_)
\* for task in tasks: total_time += task.timeSpent
calculate_total_time(task_list) ==
    IF task_list = <<>> THEN 0
    ELSE Head(task_list).timeSpent + calculate_total_time(Tail(task_list))

RECURSIVE calculate_transversal_time(_)
\* for activity in activities: total_transversal_time += activity.time_spent
calculate_transversal_time(activities) ==
    IF activities = <<>> THEN 0
    ELSE Head(activities).time_spent + calculate_transversal_time(Tail(activities))

\* floor(calculate_otd(status, velocity, in_scope))
calculate_otd(status, velocity, in_scope) ==
    IF ~(status = "Done" /\ in_scope # 0) THEN 0
    ELSE (100 * velocity) \div in_scope

\* floor(calculate_oqd(sprint_name, status, tasks))
calculate_oqd(sprint_name, status, task_list) ==
    LET delivered == {i \in 1..Len(task_list) : Delivered(task_list[i], sprint_name)}
        rft_ok == {i \in delivered : task_list[i].rft = "OK"}
    IN  IF task_list = <<>> \/ status # "Done" \/ delivered = {} THEN 0
        ELSE (100 * Cardinality(rft_ok)) \div Cardinality(delivered)

\* the general case of calculate_sprint_metrics: the helpers are gathered,
\* and the call raises when one of them does (velocity always walks the
\* tasks, so a DONE task makes it read deliverySprint)
SprintMetricsOfTasks(sprint, trans_acts, task_list) ==
    LET total_story_points == calculate_story_points(task_list)
        velocity == calculate_velocity(task_list, sprint.sprintName)
        total_time_spent == calculate_total_time(task_list)
        total_transversal_time == calculate_transversal_time(trans_acts)
    IN  IF \E i \in 1..Len(task_list) :
              task_list[i].status = "DONE" /\ DeliverySprintRaises(task_list[i])
          THEN [raised |-> TRUE]
          ELSE [raised |-> FALSE,
                scoped |-> total_story_points,
                velocity |-> velocity,
                progress |-> calculate_progress(task_list).num
                               \div calculate_progress(task_list).den,
                technical_time_spent |-> total_time_spent,
                transversal_time_spent |-> total_transversal_time,
                time_spent |-> total_time_spent + total_transversal_time,
                duration |-> calculate_weekdays(sprint.startDate, sprint.dueDate),
                otd |-> calculate_otd(sprint.status, velocity, total_story_points),
                oqd |-> calculate_oqd(sprint.sprintName, sprint.status, task_list)]

\* variant: no early return for an empty task list
calculate_sprint_metricsNoEarlyReturn(sprint, trans_acts, task_list) ==
    SprintMetricsOfTasks(sprint, trans_acts, task_list)

\* calculate_sprint_metrics(sprint, trans_acts, tasks): if not tasks, the
\* fixed dictionary with the duration is returned
calculate_sprint_metrics(sprint, trans_acts, task_list) ==
    IF task_list = <<>>
      THEN [raised |-> FALSE, scoped |-> 0, velocity |-> 0, progress |-> 0,
            time_spent |-> 0,
            duration |-> calculate_weekdays(sprint.startDate, sprint.dueDate),
            otd |-> 0, oqd |-> 0]
      ELSE SprintMetricsOfTasks(sprint, trans_acts, task_list)

(* ------------------------------ TaskService ----------------------------- *)

\* _calculate_and_update_fields(task, initialize_time_remaining): the metrics
\* are computed from the task as passed in, and timeRemaining is initialised
\* afterwards.  Returns the task, or raised when the metrics raise.
CalculateAndUpdateFields(w, task, initialize_time_remaining) ==
    IF task.projectId \notin DOMAIN w.projects
      THEN [raised |-> FALSE, task |-> task]
      ELSE
        LET metrics == calculate_task_metrics(task, w.projects[task.projectId].ratio)
            t1 == [task EXCEPT !.technicalLoad = metrics.technical_load,
                               !.delta = metrics.delta,
                               !.progress = metrics.progress]
            t2 == IF initialize_time_remaining \/ t1.timeRemaining = None
                    THEN [t1 EXCEPT !.timeRemaining = t1.technicalLoad]
                    ELSE t1
            \* if task.status == TaskStatus.DONE and not task.deliverySprint:
            \* the attribute is read for a DONE task, and set from the sprint
            t3 == IF /\ t2.status = "DONE"
                     /\ ~DeliverySprintRaises(t2)
                     /\ t2.deliverySprint = ""
                     /\ t2.sprintId \in DOMAIN w.sprints
                    THEN [t2 EXCEPT !.deliverySprint = w.sprints[t2.sprintId].sprintName]
                    ELSE t2
        IN  IF metrics.raised THEN [raised |-> TRUE, task |-> task]
            ELSE IF t2.status = "DONE" /\ DeliverySprintRaises(t2)
              THEN [raised |-> TRUE, task |-> task]
            ELSE [raised |-> FALSE, task |-> t3]

\* variant: the Task model defaults is_cascade_deleted to True
NewTaskFlaggedCascade(sprintId, projectId, storyPoints) ==
    [sprintId |-> sprintId, projectId |-> projectId, storyPoints |-> storyPoints,
     technicalLoad |-> 0, timeSpent |-> 0, timeRemaining |-> None,
     progress |-> 0, delta |-> 0, status |-> "TODO", rft |-> "",
     is_deleted |-> FALSE, is_cascade_deleted |-> TRUE]

\* the Task document create_task builds before the calculation
NewTask(sprintId, projectId, storyPoints) ==
    [sprintId |-> sprintId, projectId |-> projectId, storyPoints |-> storyPoints,
     technicalLoad |-> 0, timeSpent |-> 0, timeRemaining |-> None,
     progress |-> 0, delta |-> 0, status |-> "TODO", rft |-> "",
     is_deleted |-> FALSE, is_cascade_deleted |-> FALSE]

\* a field a TaskUpdate leaves unset (exclude_unset)
Unset == -2

\* the status a create_task request carries, and an update_task request
\* that sets one
TaskStatusDomain == {"TODO", "DONE"}

\* the requests update_task is driven with: each of storyPoints, timeSpent,
\* timeRemaining and status is either left unset or carries a value (an
\* unset status is the empty string)
TaskUpdates ==
    [storyPoints : StoryPointsDomain \cup {Unset},
     timeSpent : TimeSpentDomain \cup {Unset},
     timeRemaining : TimeRemainingDomain \cup {Unset},
     status : {"", "DONE"}]

\* update_task between the load and the save: the fields are copied, the
\* reinitialisation of timeRemaining is decided, the derived fields follow
UpdatedTask(w, task, upd) ==
    LET old_story_points == task.storyPoints
        old_time_remaining == task.timeRemaining
        time_remaining_explicitly_set == upd.timeRemaining # Unset
        t1 == [task EXCEPT
                 !.storyPoints = IF upd.storyPoints # Unset THEN upd.storyPoints ELSE @,
                 !.timeSpent = IF upd.timeSpent # Unset THEN upd.timeSpent ELSE @,
                 !.timeRemaining = IF upd.timeRemaining # Unset THEN upd.timeRemaining ELSE @,
                 !.status = IF upd.status # "" THEN upd.status ELSE @]
        lookup == upd.storyPoints # Unset /\ t1.storyPoints # old_story_points
                  /\ ~time_remaining_explicitly_set
                  /\ t1.projectId \in DOMAIN w.projects
        ratio == IF t1.projectId \in DOMAIN w.projects
                   THEN w.projects[t1.projectId].ratio ELSE 1
        \* old_time_remaining == old_story_points / ratio, on unrounded floats
        was_auto == lookup /\ ratio # 0 /\ old_time_remaining # None
                    /\ old_time_remaining * ratio = 100 * old_story_points
        should_reinitialize ==
            was_auto \/ (t1.timeRemaining = None /\ ~time_remaining_explicitly_set)
    IN  IF lookup /\ ratio = 0
          THEN [raised |-> TRUE, task |-> task]
          ELSE CalculateAndUpdateFields(w, t1, should_reinitialize)

(* ----------------------------- ProjectService --------------------------- *)

\* variant: the loop resets timeRemaining whether or not it was edited
RecalculatedTaskAlwaysReset(task, ratio) ==
    LET metrics == calculate_task_metrics(task, ratio)
    IN  [task EXCEPT !.technicalLoad = metrics.technical_load,
                     !.delta = metrics.delta,
                     !.progress = metrics.progress,
                     !.timeRemaining = metrics.technical_load]

\* one iteration of the loop of _recalculate_project_tasks, before the save
RecalculatedTask(task, ratio) ==
    LET metrics == calculate_task_metrics(task, ratio)
        old_technical_load == task.technicalLoad
        t1 == [task EXCEPT !.technicalLoad = metrics.technical_load,
                           !.delta = metrics.delta,
                           !.progress = metrics.progress]
    IN  IF t1.timeRemaining = old_technical_load
          THEN [t1 EXCEPT !.timeRemaining = t1.technicalLoad]
          ELSE t1

RECURSIVE RecalculateLoopSkipFailed(_, _, _, _)
\* variant: a save that fails is skipped and the loop goes on with the next
\* task
RecalculateLoopSkipFailed(w, ids, ratio, F) ==
    IF ids = <<>> THEN [w EXCEPT !.ok = TRUE]
    ELSE
      LET id == Head(ids)
      IN  IF calculate_task_metrics(w.tasks[id], ratio).raised
            THEN [w EXCEPT !.ok = FALSE]
            ELSE IF <<"task", id>> \in F
              THEN RecalculateLoopSkipFailed(
                     [w EXCEPT !.attempts = Append(@, <<"task", id>>)],
                     Tail(ids), ratio, F)
              ELSE RecalculateLoopSkipFailed(
                     [w EXCEPT !.tasks[id] = RecalculatedTask(w.tasks[id], ratio),
                               !.attempts = Append(@, <<"task", id>>),
                               !.writes = Append(@, <<"task", id>>)],
                     Tail(ids), ratio, F)

RECURSIVE RecalculateLoop(_, _, _, _)
\* for task in tasks: ... await self.engine.save(task); an exception (the
\* metrics raising, a save failing) leaves the loop and is caught by the
\* caller's except clause, which returns False
RecalculateLoop(w, ids, ratio, F) ==
    IF ids = <<>> THEN [w EXCEPT !.ok = TRUE]
    ELSE
      LET id == Head(ids)
      IN  IF calculate_task_metrics(w.tasks[id], ratio).raised
            THEN [w EXCEPT !.ok = FALSE]
            ELSE IF <<"task", id>> \in F
              THEN [w EXCEPT !.attempts = Append(@, <<"task", id>>), !.ok = FALSE]
              ELSE RecalculateLoop(
                     [w EXCEPT !.tasks[id] = RecalculatedTask(w.tasks[id], ratio),
                               !.attempts = Append(@, <<"task", id>>),
                               !.writes = Append(@, <<"task", id>>)],
                     Tail(ids), ratio, F)

\* find(Task, projectId == p & is_deleted == False), in identifier order
TasksOfProject(w, p) ==
    SetToSeq({t \in DOMAIN w.tasks : w.tasks[t].projectId = p /\ ~w.tasks[t].is_deleted})

\* _recalculate_project_tasks(project_id) -> bool
RecalculateProjectTasks(w, project_id, F) ==
    LET w0 == [w EXCEPT !.calls = Append(@, <<"recalculate", project_id, FALSE>>)]
    IN  IF project_id \notin DOMAIN w0.projects
          THEN [w0 EXCEPT !.ok = FALSE]
          ELSE RecalculateLoop(w0, TasksOfProject(w0, project_id),
                               w0.projects[project_id].ratio, F)

\* the requests update_project is driven with: the ratio is left unset or set
ProjectUpdates == RatioDomain \cup {Unset}

(* ------------------------------- operations ----------------------------- *)

\* the store after an operation, and what the operation reported:
\* `ok` its boolean result, `raised` the exception it ended with ("" when it
\* returned), `inner` the boolean of the last engine or recalculation call
\* made inside it, plus the trace of engine calls and store writes, the map
\* a query returned, and whether the operation is the repetition of a
\* request that was cut off
Commit(w, op, id, isCascade, ok, raised) ==
    /\ centers' = w.centers
    /\ projects' = w.projects
    /\ sprints' = w.sprints
    /\ tasks' = w.tasks
    /\ sprintActs' = w.sprintActs
    /\ projectActs' = w.projectActs
    /\ last' = [op |-> op, id |-> id, isCascade |-> isCascade, ok |-> ok,
                raised |-> raised, inner |-> w.ok, calls |-> w.calls,
                attempts |-> w.attempts, writes |-> w.writes,
                result |-> w.result,
                resumed |-> last.op \in {"interrupted DELETE /sprints",
                                         "interrupted DELETE /projects",
                                         "interrupted DELETE /service-centers"}]

\* CascadeDeletionService.delete_task(task_id, is_cascade)
DeleteTask(id, isCascade, F) ==
    LET w == EngineDeleteTask(World, id, isCascade, F)
    IN  Commit(w, "deleteTask", id, isCascade, w.ok, "")

\* CascadeDeletionService.delete_sprint_transversal_activity(activity_id),
\* called on its own: a direct delete
DeleteSprintAct(id, F) ==
    LET w == EngineDeleteSprintAct(World, id, FALSE, F)
    IN  Commit(w, "deleteSprintAct", id, FALSE, w.ok, "")

\* CascadeDeletionService.delete_project_transversal_activity(activity_id),
\* called on its own: a direct delete
DeleteProjectAct(id, F) ==
    LET w == EngineDeleteProjectAct(World, id, FALSE, F)
    IN  Commit(w, "deleteProjectAct", id, FALSE, w.ok, "")

\* variant: the route passes is_cascade=True
RouteTaskIsCascadeTrue == TRUE

\* the is_cascade argument DELETE /tasks/{taskId} passes
RouteTaskIsCascade == FALSE

\* DELETE /tasks/{taskId}: the task is looked up first (404 when absent, None
\* for a malformed id), then deleted through the engine as a direct delete
RouteDeleteTask(id, F) ==
    IF id # MalformedId /\ ~ActiveTask(World, id)
      THEN Commit(World, "DELETE /tasks", id, FALSE, FALSE, "http404")
      ELSE
        LET w == EngineDeleteTask(World, id, RouteTaskIsCascade, F)
        IN  Commit(w, "DELETE /tasks", id, FALSE, w.ok, IF w.ok THEN "" ELSE "http404")

\* DELETE /sprints/{sprintId}
RouteDeleteSprint(id, F) ==
    LET w == EngineDeleteSprint(World, id, FALSE, F)
    IN  Commit(w, "DELETE /sprints", id, FALSE, w.ok, IF w.ok THEN "" ELSE "http404")

\* DELETE /projects/{projectId}
RouteDeleteProject(id, F) ==
    LET w == EngineDeleteProject(World, id, FALSE, F)
    IN  Commit(w, "DELETE /projects", id, FALSE, w.ok, IF w.ok THEN "" ELSE "http404")

\* DELETE /service-centers/{serviceCenterId}
RouteDeleteServiceCenter(id, F) ==
    LET w == EngineDeleteServiceCenter(World, id, F)
    IN  Commit(w, "DELETE /service-centers", id, FALSE, w.ok,
               IF w.ok THEN "" ELSE "http404")

\* GET /projects/{projectId}/cascade-deleted: the engine's map is returned as
\* it is, nothing is written
RouteGetCascadeDeleted(id) ==
    LET w == [World EXCEPT !.result = GetCascadeDeletedElements(World, "project", id)]
    IN  Commit(w, "GET /projects/cascade-deleted", id, FALSE, TRUE, "")

\* CascadeDeletionService.get_cascade_deleted_elements(element_type, element_id)
\* called with an entity type the engine does not know
GetCascadeDeletedUnknownType(id) ==
    LET w == [World EXCEPT !.result = GetCascadeDeletedElements(World, "invalid_type", id)]
    IN  Commit(w, "getCascadeDeletedElements", id, FALSE, TRUE, "")

\* the routes that delete a document together with what lies below it
CascadeRoutes == {"DELETE /sprints", "DELETE /projects", "DELETE /service-centers"}

\* the engine method behind a cascade route, run on the world w
RunCascade(w, op, id, F) ==
    IF op = "DELETE /sprints" THEN EngineDeleteSprint(w, id, FALSE, F)
    ELSE IF op = "DELETE /projects" THEN EngineDeleteProject(w, id, FALSE, F)
    ELSE EngineDeleteServiceCenter(w, id, F)

\* the world in which a cascade that would run as `full` has been cut off
\* after its first k saves: the documents of those saves are stored as the
\* cascade wrote them, every other document as it was
InterruptedAfter(w, full, k) ==
    LET done == {full.writes[i] : i \in 1..k}
    IN  [w EXCEPT
           !.projects = [x \in DOMAIN w.projects |->
               IF <<"project", x>> \in done THEN full.projects[x] ELSE w.projects[x]],
           !.sprints = [x \in DOMAIN w.sprints |->
               IF <<"sprint", x>> \in done THEN full.sprints[x] ELSE w.sprints[x]],
           !.tasks = [x \in DOMAIN w.tasks |->
               IF <<"task", x>> \in done THEN full.tasks[x] ELSE w.tasks[x]],
           !.sprintActs = [x \in DOMAIN w.sprintActs |->
               IF <<"sprintAct", x>> \in done THEN full.sprintActs[x] ELSE w.sprintActs[x]],
           !.projectActs = [x \in DOMAIN w.projectActs |->
               IF <<"projectAct", x>> \in done THEN full.projectActs[x] ELSE w.projectActs[x]],
           !.attempts = SubSeq(full.attempts, 1, k),
           !.writes = SubSeq(full.writes, 1, k)]

\* the record of a cascade request that was cut off, by route
InterruptedOp(op) ==
    IF op = "DELETE /sprints" THEN "interrupted DELETE /sprints"
    ELSE IF op = "DELETE /projects" THEN "interrupted DELETE /projects"
    ELSE "interrupted DELETE /service-centers"

InterruptedOps ==
    {"interrupted DELETE /sprints", "interrupted DELETE /projects",
     "interrupted DELETE /service-centers"}

\* a cascade request that ends (the client gone, the worker stopped) after k
\* of its saves and before the save of its root; nothing is reported
InterruptedCascade(op, id, k) ==
    LET full == RunCascade(World, op, id, {})
    IN  /\ full.ok
        /\ k < Len(full.writes)
        /\ Commit(InterruptedAfter(World, full, k), InterruptedOp(op), id, FALSE, FALSE,
                  "interrupted")

\* the route of the request that was cut off
ResumedRoute == CHOOSE op \in CascadeRoutes : InterruptedOp(op) = last.op

\* the cascade request that was cut off is sent again and runs to its end
ResumeCascade(F) ==
    /\ last.op \in InterruptedOps
    /\ IF last.op = "interrupted DELETE /sprints" THEN RouteDeleteSprint(last.id, F)
       ELSE IF last.op = "interrupted DELETE /projects" THEN RouteDeleteProject(last.id, F)
       ELSE RouteDeleteServiceCenter(last.id, F)

\* variant: the task is removed with engine.delete() instead of flagged
ServiceDeleteTaskHard(id, F) ==
    IF id = MalformedId
      THEN Commit(World, "TaskService.delete_task", id, FALSE, FALSE, "")
    ELSE IF ~ActiveTask(World, id)
      THEN Commit(World, "TaskService.delete_task", id, FALSE, FALSE, "http404")
    ELSE Commit([World EXCEPT !.tasks = [t \in DOMAIN tasks \ {id} |-> tasks[t]],
                              !.attempts = <<<<"task", id>>>>,
                              !.writes = <<<<"task", id>>>>],
                "TaskService.delete_task", id, FALSE, TRUE, "")

\* TaskService.delete_task(task_id): None for a malformed id gives False, an
\* absent task raises 404, a failing save() raises
ServiceDeleteTask(id, F) ==
    IF id = MalformedId
      THEN Commit(World, "TaskService.delete_task", id, FALSE, FALSE, "")
    ELSE IF ~ActiveTask(World, id)
      THEN Commit(World, "TaskService.delete_task", id, FALSE, FALSE, "http404")
    ELSE IF <<"task", id>> \in F
      THEN Commit([World EXCEPT !.attempts = <<<<"task", id>>>>],
                  "TaskService.delete_task", id, FALSE, FALSE, "error")
    ELSE Commit([World EXCEPT !.tasks[id].is_deleted = TRUE,
                              !.attempts = <<<<"task", id>>>>,
                              !.writes = <<<<"task", id>>>>],
                "TaskService.delete_task", id, FALSE, TRUE, "")

\* SprintService.delete_sprint_transversal_activity(activity_id): a malformed
\* id gives None, whose attribute assignment raises
ServiceDeleteSprintAct(id, F) ==
    IF id = MalformedId
      THEN Commit(World, "SprintService.delete_sprint_transversal_activity",
                  id, FALSE, FALSE, "error")
    ELSE IF ~ActiveSprintAct(World, id)
      THEN Commit(World, "SprintService.delete_sprint_transversal_activity",
                  id, FALSE, FALSE, "http404")
    ELSE IF <<"sprintAct", id>> \in F
      THEN Commit([World EXCEPT !.attempts = <<<<"sprintAct", id>>>>],
                  "SprintService.delete_sprint_transversal_activity",
                  id, FALSE, FALSE, "error")
    ELSE Commit([World EXCEPT !.sprintActs[id].is_deleted = TRUE,
                              !.attempts = <<<<"sprintAct", id>>>>,
                              !.writes = <<<<"sprintAct", id>>>>],
                "SprintService.delete_sprint_transversal_activity",
                id, FALSE, TRUE, "")

\* ProjectService.delete_project_transversal_activity(activity_id)
ServiceDeleteProjectAct(id, F) ==
    IF id = MalformedId
      THEN Commit(World, "ProjectService.delete_project_transversal_activity",
                  id, FALSE, FALSE, "error")
    ELSE IF ~ActiveProjectAct(World, id)
      THEN Commit(World, "ProjectService.delete_project_transversal_activity",
                  id, FALSE, FALSE, "http404")
    ELSE IF <<"projectAct", id>> \in F
      THEN Commit([World EXCEPT !.attempts = <<<<"projectAct", id>>>>],
                  "ProjectService.delete_project_transversal_activity",
                  id, FALSE, FALSE, "error")
    ELSE Commit([World EXCEPT !.projectActs[id].is_deleted = TRUE,
                              !.attempts = <<<<"projectAct", id>>>>,
                              !.writes = <<<<"projectAct", id>>>>],
                "ProjectService.delete_project_transversal_activity",
                id, FALSE, TRUE, "")

\* TaskService.create_task(task_data): the request names a stored sprint and
\* that sprint's project and carries a status; the new document gets the
\* next free identifier; the status of the request is kept with the outcome
CreateTask(sprintId, storyPoints, status, F) ==
    /\ sprintId \in DOMAIN sprints
    /\ TaskIds \ DOMAIN tasks # {}
    /\ Cardinality(DOMAIN tasks) < MaxCreated
    /\ LET id == Min(TaskIds \ DOMAIN tasks)
           w0 == [World EXCEPT !.result = [status |-> status]]
           r == CalculateAndUpdateFields(
                    World,
                    [NewTask(sprintId, sprints[sprintId].projectId, storyPoints)
                       EXCEPT !.status = status],
                    TRUE)
       IN  IF r.raised
             THEN Commit(w0, "create_task", id, FALSE, FALSE, "error")
           ELSE IF <<"task", id>> \in F
             THEN Commit([w0 EXCEPT !.attempts = <<<<"task", id>>>>],
                         "create_task", id, FALSE, FALSE, "http400")
           ELSE Commit([w0 EXCEPT
                          !.tasks = [t \in DOMAIN tasks \cup {id} |->
                                        IF t = id THEN r.task ELSE tasks[t]],
                          !.attempts = <<<<"task", id>>>>,
                          !.writes = <<<<"task", id>>>>],
                       "create_task", id, FALSE, TRUE, "")

\* TaskService.update_task(task_update); the status of the request is kept
\* with the outcome
UpdateTask(id, upd, F) ==
    IF id = MalformedId
      THEN Commit(World, "update_task", id, FALSE, FALSE, "")
    ELSE IF ~ActiveTask(World, id)
      THEN Commit(World, "update_task", id, FALSE, FALSE, "http404")
    ELSE
      LET r == UpdatedTask(World, tasks[id], upd)
          w0 == [World EXCEPT !.result = [status |-> upd.status]]
      IN  IF r.raised
            THEN Commit(w0, "update_task", id, FALSE, FALSE, "error")
          ELSE IF <<"task", id>> \in F
            THEN Commit([w0 EXCEPT !.attempts = <<<<"task", id>>>>],
                        "update_task", id, FALSE, FALSE, "http400")
          ELSE Commit([w0 EXCEPT !.tasks[id] = r.task,
                                    !.attempts = <<<<"task", id>>>>,
                                    !.writes = <<<<"task", id>>>>],
                      "update_task", id, FALSE, TRUE, "")

\* variant: the tasks are recalculated whenever the request carries a ratio,
\* equal to the stored one or not
UpdateProjectAnyRatio(id, ratio, F) ==
    IF id = MalformedId
      THEN Commit(World, "update_project", id, FALSE, FALSE, "error")
    ELSE IF ~ActiveProject(World, id)
      THEN Commit(World, "update_project", id, FALSE, FALSE, "http404")
    ELSE IF <<"project", id>> \in F
      THEN Commit([World EXCEPT !.attempts = <<<<"project", id>>>>],
                  "update_project", id, FALSE, FALSE, "http400")
    ELSE
      LET w1 == [World EXCEPT
                    !.projects[id].ratio = IF ratio # Unset THEN ratio ELSE @,
                    !.attempts = <<<<"project", id>>>>,
                    !.writes = <<<<"project", id>>>>]
          w2 == IF ratio # Unset
                  THEN RecalculateProjectTasks(w1, id, F)
                  ELSE w1
      IN  Commit(w2, "update_project", id, FALSE, TRUE, "")

\* ProjectService.update_project(project_update): the project is saved, then
\* the tasks are recalculated when the request carries a different ratio;
\* the boolean the recalculation returns is not looked at
UpdateProject(id, ratio, F) ==
    IF id = MalformedId
      THEN Commit(World, "update_project", id, FALSE, FALSE, "error")
    ELSE IF ~ActiveProject(World, id)
      THEN Commit(World, "update_project", id, FALSE, FALSE, "http404")
    ELSE IF <<"project", id>> \in F
      THEN Commit([World EXCEPT !.attempts = <<<<"project", id>>>>],
                  "update_project", id, FALSE, FALSE, "http400")
    ELSE
      LET old_ratio == projects[id].ratio
          w1 == [World EXCEPT
                    !.projects[id].ratio = IF ratio # Unset THEN ratio ELSE @,
                    !.attempts = <<<<"project", id>>>>,
                    !.writes = <<<<"project", id>>>>]
          w2 == IF ratio # Unset /\ ratio # old_ratio
                  THEN RecalculateProjectTasks(w1, id, F)
                  ELSE w1
      IN  Commit(w2, "update_project", id, FALSE, TRUE, "")

(* ---------------------------- specifications ---------------------------- *)

NoOp ==
    [op |-> "init", id |-> MalformedId, isCascade |-> FALSE, ok |-> FALSE,
     raised |-> "", inner |-> FALSE, calls |-> <<>>, attempts |-> <<>>,
     writes |-> <<>>, result |-> <<>>, resumed |-> FALSE]

Active == [is_deleted |-> FALSE, is_cascade_deleted |-> FALSE]

\* the workload ratio of the seeded project
SeedRatio == 2

SeedProject == [centerId |-> 1, ratio |-> SeedRatio, is_deleted |-> FALSE]

SeedSprint ==
    [projectId |-> 1, sprintName |-> "Test Sprint", status |-> "To do",
     startDate |-> 2, dueDate |-> 16, is_deleted |-> FALSE]

\* a seeded task is a task as create_task stores it
SeedTask(sprintId) ==
    [NewTask(sprintId, 1, 10) EXCEPT !.technicalLoad = 500, !.timeRemaining = 500,
                                     !.delta = 500]

SeedSprintAct == [sprintId |-> 1, time_spent |-> 0, is_deleted |-> FALSE]

SeedProjectAct == [project_id |-> 1, is_deleted |-> FALSE]

\* one service center with one project, one sprint and their transversal
\* activities, no task yet
Init ==
    /\ centers = [c \in CenterIds |-> Active]
    /\ projects = [p \in ProjectIds |-> SeedProject]
    /\ sprints = [s \in {1} |-> SeedSprint]
    /\ tasks = <<>>
    /\ sprintActs = [a \in SprintActIds |-> SeedSprintAct]
    /\ projectActs = [a \in ProjectActIds |-> SeedProjectAct]
    /\ last = NoOp

\* a populated tree: the first two tasks and the sprint activity under
\* sprint 1, further tasks under sprint 2, every sprint and the project
\* activity under the project, the project under the center
InitCascade ==
    /\ centers = [c \in CenterIds |-> Active]
    /\ projects = [p \in ProjectIds |-> SeedProject]
    /\ sprints = [s \in SprintIds |-> SeedSprint]
    /\ tasks = [t \in TaskIds |-> SeedTask(IF t <= 2 THEN 1 ELSE 2)]
    /\ sprintActs = [a \in SprintActIds |-> SeedSprintAct]
    /\ projectActs = [a \in ProjectActIds |-> SeedProjectAct]
    /\ last = NoOp

\* the save() of one document succeeds or fails
FailureOf(kind, id) == {{}, {<<kind, id>>}}

\* the sets of failing writes that make a difference to an operation: those
\* among the documents the operation saves when nothing fails
Failures(attempts) == {F \in SUBSET Range(attempts) : Cardinality(F) <= MaxFailures}

\* no response is pending: the next request can be served
Idle == last = NoOp

\* one request to the deletion engine, to a DELETE route, to a delete method
\* of a service or to the audit query
CascadeStep ==
    \/ Idle /\ \E id \in TaskIds \cup BadIds, isCascade \in BOOLEAN :
          \E F \in FailureOf("task", id) : DeleteTask(id, isCascade, F)
    \/ Idle /\ \E id \in TaskIds \cup BadIds :
          \E F \in FailureOf("task", id) : RouteDeleteTask(id, F)
    \/ Idle /\ \E id \in SprintIds \cup BadIds :
          \E F \in Failures(EngineDeleteSprint(World, id, FALSE, {}).attempts) :
             RouteDeleteSprint(id, F)
    \/ Idle /\ \E id \in ProjectIds \cup BadIds :
          \E F \in Failures(EngineDeleteProject(World, id, FALSE, {}).attempts) :
             RouteDeleteProject(id, F)
    \/ Idle /\ \E id \in CenterIds \cup BadIds :
          \E F \in Failures(EngineDeleteServiceCenter(World, id, {}).attempts) :
             RouteDeleteServiceCenter(id, F)
    \/ Idle /\ \E id \in TaskIds \cup BadIds :
          \E F \in FailureOf("task", id) : ServiceDeleteTask(id, F)
    \/ Idle /\ \E id \in SprintActIds \cup BadIds :
          \E F \in FailureOf("sprintAct", id) : ServiceDeleteSprintAct(id, F)
    \/ Idle /\ \E id \in ProjectActIds \cup BadIds :
          \E F \in FailureOf("projectAct", id) : ServiceDeleteProjectAct(id, F)
    \/ Idle /\ \E id \in SprintActIds \cup BadIds :
          \E F \in FailureOf("sprintAct", id) : DeleteSprintAct(id, F)
    \/ Idle /\ \E id \in ProjectActIds \cup BadIds :
          \E F \in FailureOf("projectAct", id) : DeleteProjectAct(id, F)
    \/ Idle /\ \E id \in ProjectIds \cup {NonexistentId} : RouteGetCascadeDeleted(id)
    \/ Idle /\ \E op \in CascadeRoutes :
          \E id \in CenterIds \cup ProjectIds \cup SprintIds :
             \E k \in 0..(Len(RunCascade(World, op, id, {}).writes) - 1) :
                InterruptedCascade(op, id, k)
    \/ Idle /\ \E id \in ProjectIds : GetCascadeDeletedUnknownType(id)

\* a request on an identifier no active document carries ends before its
\* body is read: one request stands for all of them
RelevantInputs(active, S) == IF active THEN S ELSE {CHOOSE x \in S : TRUE}

\* the documents update_project saves when nothing fails: the project, then
\* each of its non-deleted tasks
ProjectUpdateAttempts(id) ==
    IF ActiveProject(World, id)
      THEN <<<<"project", id>>>> \o [i \in 1..Len(TasksOfProject(World, id)) |->
                                        <<"task", TasksOfProject(World, id)[i]>>]
      ELSE <<>>

\* create_task, update_task and update_project driven with story points
\* from SP, statuses from ST, task updates from UPD and project updates from
\* RAT
MetricsStep(SP, ST, UPD, RAT) ==
    \/ Idle /\ \E s \in SprintIds, sp \in SP, st \in ST, fail \in BOOLEAN :
          CreateTask(s, sp, st, IF fail THEN {"task"} \X TaskIds ELSE {})
    \/ Idle /\ \E id \in TaskIds \cup BadIds :
          \E upd \in RelevantInputs(ActiveTask(World, id), UPD) :
             \E F \in FailureOf("task", id) : UpdateTask(id, upd, F)
    \/ Idle /\ \E id \in ProjectIds \cup BadIds :
          \E r \in RelevantInputs(ActiveProject(World, id), RAT) :
             \E F \in Failures(ProjectUpdateAttempts(id)) : UpdateProject(id, r, F)

\* the caller has read the response of the last operation: its record is
\* cleared, the store stays as it is
ResponseRead ==
    /\ last # NoOp
    /\ last' = NoOp
    /\ UNCHANGED <<centers, projects, sprints, tasks, sprintActs, projectActs>>

\* deleteTask is called again on the id of the call that has just returned
RepeatDeleteTask ==
    /\ last.op = "deleteTask"
    /\ \E isCascade \in BOOLEAN :
          \E F \in FailureOf("task", last.id) : DeleteTask(last.id, isCascade, F)

\* the resumed request, with the saves that may fail in it
ResumeStep ==
    /\ last.op \in InterruptedOps
    /\ \E F \in Failures(RunCascade(World, ResumedRoute, last.id, {}).attempts) :
          ResumeCascade(F)

\* the deletions, one request at a time
NextCascade ==
    \/ CascadeStep
    \/ RepeatDeleteTask
    \/ ResumeStep
    \/ ResponseRead

\* the metrics operations, one request at a time
NextMetrics ==
    \/ MetricsStep(StoryPointsDomain, TaskStatusDomain, TaskUpdates, ProjectUpdates)
    \/ ResponseRead

\* the task updates that only report time spent
TimeSpentUpdates ==
    {u \in TaskUpdates : u.storyPoints = Unset /\ u.timeRemaining = Unset
                         /\ u.status = "" /\ u.timeSpent # Unset}

\* every operation, one request at a time; next to the deletions, the
\* metrics operations run on one story-point value, the time-spent updates
\* and one new ratio
Next ==
    \/ CascadeStep
    \/ MetricsStep({10}, {"TODO"}, TimeSpentUpdates, {Unset, 5})
    \/ RepeatDeleteTask
    \/ ResumeStep
    \/ ResponseRead

\* the task updates that only edit the time remaining
TimeRemainingUpdates ==
    {u \in TaskUpdates : u.storyPoints = Unset /\ u.timeSpent = Unset
                         /\ u.status = "" /\ u.timeRemaining # Unset}

\* edits of the time remaining of the tasks and updates of the project of a
\* populated tree, one request at a time
NextRecalc ==
    \/ Idle /\ \E id \in TaskIds \cup BadIds :
          \E upd \in RelevantInputs(ActiveTask(World, id), TimeRemainingUpdates) :
             \E F \in FailureOf("task", id) : UpdateTask(id, upd, F)
    \/ Idle /\ \E id \in ProjectIds \cup BadIds :
          \E r \in RelevantInputs(ActiveProject(World, id), ProjectUpdates) :
             \E F \in Failures(ProjectUpdateAttempts(id)) : UpdateProject(id, r, F)
    \/ ResponseRead

\* the tasks calculate_task_metrics is called on: one task of the seeded
\* project with story points, time spent and time remaining drawn from
\* these values
TaskMetricsInputs ==
    {[NewTask(1, 1, sp) EXCEPT !.timeSpent = ts, !.timeRemaining = tr] :
        sp \in {0, 5, 10}, ts \in {None, 0, 200}, tr \in {None, 0, 100, 300}}

\* one task and a project whose ratio is any value a project may store
InitTaskMetrics ==
    /\ centers = [c \in CenterIds |-> Active]
    /\ \E r \in RatioDomain : projects = [p \in ProjectIds |-> [SeedProject EXCEPT !.ratio = r]]
    /\ sprints = [s \in {1} |-> SeedSprint]
    /\ \E t \in TaskMetricsInputs : tasks = [i \in {1} |-> t]
    /\ sprintActs = [a \in SprintActIds |-> SeedSprintAct]
    /\ projectActs = [a \in ProjectActIds |-> SeedProjectAct]
    /\ last = NoOp

\* await calculate_task_metrics(task, project.transversal_vs_technical_workload_ratio)
\* on a stored task, the returned dictionary kept as the result
TaskMetrics(id) ==
    LET metrics == calculate_task_metrics(tasks[id], projects[tasks[id].projectId].ratio)
    IN  Commit([World EXCEPT !.result = metrics], "calculate_task_metrics", id,
               FALSE, ~metrics.raised, IF metrics.raised THEN "error" ELSE "")

\* the metrics of a stored task are computed, one call at a time
NextTaskMetrics ==
    \/ Idle /\ \E id \in DOMAIN tasks : TaskMetrics(id)
    \/ ResponseRead

\* the tasks of a sprint the metrics are computed on
SprintMetricsTasks ==
    {[NewTask(1, 1, sp) EXCEPT !.status = st, !.progress = pr] :
        sp \in {0, 3, 10}, st \in {"TODO", "DONE", "CANCEL"}, pr \in {50, 100}}

\* the dates a sprint starts and ends on: a Wednesday, the Saturday after
\* it and the Friday of the second week after it
SprintDates == {2, 5, 16}

\* one sprint with any status and dates, none up to NumTasks tasks in it and
\* one transversal activity
InitSprintMetrics ==
    /\ centers = [c \in CenterIds |-> Active]
    /\ projects = [p \in ProjectIds |-> SeedProject]
    /\ \E st \in {"In progress", "Done"}, a \in SprintDates, b \in SprintDates :
          sprints = [s \in {1} |-> [SeedSprint EXCEPT !.status = st,
                                                      !.startDate = a,
                                                      !.dueDate = b]]
    /\ \E n \in 0..NumTasks : tasks \in [1..n -> SprintMetricsTasks]
    /\ \E ts \in {0, 150} :
          sprintActs = [a \in SprintActIds |-> [SeedSprintAct EXCEPT !.time_spent = ts]]
    /\ projectActs = [a \in ProjectActIds |-> SeedProjectAct]
    /\ last = NoOp

\* get_tasks_by_sprint(sprint_id): the non-deleted tasks of the sprint
TasksBySprint(w, s) ==
    LET ids == SetToSeq({t \in DOMAIN w.tasks :
                            w.tasks[t].sprintId = s /\ ~w.tasks[t].is_deleted})
    IN  [i \in 1..Len(ids) |-> w.tasks[ids[i]]]

\* get_sprint_transversal_activities_by_sprint(sprint_id)
ActivitiesBySprint(w, s) ==
    LET ids == SetToSeq({a \in DOMAIN w.sprintActs :
                            w.sprintActs[a].sprintId = s /\ ~w.sprintActs[a].is_deleted})
    IN  [i \in 1..Len(ids) |-> w.sprintActs[ids[i]]]

\* build_sprint_info_response: the tasks and activities of the sprint are
\* read and calculate_sprint_metrics is awaited on them
SprintMetrics(s) ==
    LET metrics == calculate_sprint_metrics(sprints[s], ActivitiesBySprint(World, s),
                                            TasksBySprint(World, s))
    IN  Commit([World EXCEPT !.result = metrics], "calculate_sprint_metrics", s,
               FALSE, ~metrics.raised, IF metrics.raised THEN "error" ELSE "")

\* await calculate_progress(tasks) on the tasks of a sprint, the returned
\* value kept as the result
SprintProgress(s) ==
    Commit([World EXCEPT !.result = calculate_progress(TasksBySprint(World, s))],
           "calculate_progress", s, FALSE, TRUE, "")

\* the metrics of a stored sprint are computed, one call at a time
NextSprintMetrics ==
    \/ Idle /\ \E s \in DOMAIN sprints : SprintMetrics(s)
    \/ Idle /\ \E s \in DOMAIN sprints : SprintProgress(s)
    \/ ResponseRead

(* ------------- a recalculation next to one other request ---------------- *)

\* no other request is in flight
NoRequest == [op |-> "none", id |-> MalformedId, doc |-> <<>>, upd |-> <<>>]

\* a recalculation pass is between two of its awaited store calls; `last`
\* then carries, in `result`, what the coroutines hold in memory: the ratio
\* and the documents the pass has read, the tasks it has still to save, the
\* other request in flight with the document it has loaded, and the record
\* of the deletes that have returned true: all of them (`acked`) and those
\* whose task the pass has saved since (`overwritten`)
Recalculating == last.op = "recalculating"

\* the pass returns: update_project returns the project whatever the
\* boolean of the pass (`inner`) is
RaceEnd(rec, inner) == [rec EXCEPT !.op = "update_project", !.ok = TRUE, !.inner = inner]

\* update_project with a different ratio, up to the end of the reads of the
\* pass: the project is saved, read again, and the non-deleted tasks of the
\* project are loaded; with no task to save the pass returns at once
RaceBegin(id, ratio) ==
    /\ Idle
    /\ ActiveProject(World, id)
    /\ ratio # projects[id].ratio
    /\ projects' = [projects EXCEPT ![id].ratio = ratio]
    /\ LET ids == TasksOfProject(World, id)
           rec == [NoOp EXCEPT
                     !.op = "recalculating", !.id = id,
                     !.calls = <<<<"recalculate", id, FALSE>>>>,
                     !.attempts = <<<<"project", id>>>>,
                     !.writes = <<<<"project", id>>>>,
                     !.result = [ratio |-> ratio,
                                 read |-> [t \in Range(ids) |-> tasks[t]],
                                 todo |-> ids,
                                 pending |-> NoRequest,
                                 acked |-> {},
                                 overwritten |-> {}]]
       IN  last' = IF ids = <<>> THEN RaceEnd(rec, TRUE) ELSE rec
    /\ UNCHANGED <<centers, sprints, tasks, sprintActs, projectActs>>

\* variant: the pass saves the recalculated fields on top of the stored
\* document instead of the document it has read
RaceSaveTaskMergeStored ==
    /\ Recalculating
    /\ LET race == last.result
           id == Head(race.todo)
           doc == race.read[id]
           rec == [last EXCEPT
                     !.attempts = Append(@, <<"task", id>>),
                     !.writes = Append(@, <<"task", id>>),
                     !.result.todo = Tail(@),
                     !.result.overwritten =
                         @ \cup (IF id \in race.acked THEN {id} ELSE {})]
       IN  IF calculate_task_metrics(doc, race.ratio).raised
             THEN /\ last' = RaceEnd(last, FALSE)
                  /\ UNCHANGED tasks
             ELSE /\ tasks' = [tasks EXCEPT ![id] =
                                 [RecalculatedTask(doc, race.ratio) EXCEPT
                                    !.is_deleted = tasks[id].is_deleted]]
                  /\ last' = IF Tail(race.todo) = <<>> THEN RaceEnd(rec, TRUE) ELSE rec
    /\ UNCHANGED <<centers, projects, sprints, sprintActs, projectActs>>

\* one iteration of the loop of the pass: the metrics of the next task are
\* computed on the document the pass read at its start and that document is
\* saved whole; an exception ends the pass with False, the last iteration
\* ends it with True
RaceSaveTask ==
    /\ Recalculating
    /\ LET race == last.result
           id == Head(race.todo)
           doc == race.read[id]
           rec == [last EXCEPT
                     !.attempts = Append(@, <<"task", id>>),
                     !.writes = Append(@, <<"task", id>>),
                     !.result.todo = Tail(@),
                     !.result.overwritten =
                         @ \cup (IF id \in race.acked THEN {id} ELSE {})]
       IN  IF calculate_task_metrics(doc, race.ratio).raised
             THEN /\ last' = RaceEnd(last, FALSE)
                  /\ UNCHANGED tasks
             ELSE /\ tasks' = [tasks EXCEPT ![id] = RecalculatedTask(doc, race.ratio)]
                  /\ last' = IF Tail(race.todo) = <<>> THEN RaceEnd(rec, TRUE) ELSE rec
    /\ UNCHANGED <<centers, projects, sprints, sprintActs, projectActs>>

\* delete_task or update_task arrives while the pass runs and loads its
\* task under the non-deleted filter (a request on a task that is not found
\* ends there and changes nothing)
RaceRequestRead(op, id, upd) ==
    /\ Recalculating
    /\ last.result.pending = NoRequest
    /\ ActiveTask(World, id)
    /\ last' = [last EXCEPT !.result.pending =
                   [op |-> op, id |-> id, doc |-> tasks[id], upd |-> upd]]
    /\ UNCHANGED <<centers, projects, sprints, tasks, sprintActs, projectActs>>

\* the request in flight saves the document it has loaded and returns:
\* delete_task with is_deleted set, update_task with the fields of the
\* request and the derived fields (nothing is saved when it raises)
RaceRequestSave ==
    /\ last.op \in {"recalculating", "update_project"}
    /\ last.result.pending # NoRequest
    /\ LET req == last.result.pending
           r == UpdatedTask(World, req.doc, req.upd)
       IN  IF req.op = "delete_task"
             THEN /\ tasks' = [tasks EXCEPT ![req.id] = [req.doc EXCEPT !.is_deleted = TRUE]]
                  /\ last' = [last EXCEPT
                                !.result.pending = NoRequest,
                                !.result.acked = @ \cup {req.id},
                                !.result.overwritten = @ \ {req.id}]
             ELSE /\ tasks' = IF r.raised THEN tasks
                              ELSE [tasks EXCEPT ![req.id] = r.task]
                  /\ last' = [last EXCEPT !.result.pending = NoRequest]
    /\ UNCHANGED <<centers, projects, sprints, sprintActs, projectActs>>

\* the caller of update_project has read its response and no other request
\* is in flight
RaceResponseRead ==
    /\ last.op = "update_project"
    /\ last.result.pending = NoRequest
    /\ ResponseRead

\* updates of the ratio of the project of a populated tree, each with
\* deletes and edits of its tasks arriving while its pass runs
NextRace ==
    \/ \E id \in ProjectIds, ratio \in RatioDomain : RaceBegin(id, ratio)
    \/ RaceSaveTask
    \/ \E id \in TaskIds : RaceRequestRead("delete_task", id, <<>>)
    \/ \E id \in TaskIds, upd \in TimeRemainingUpdates :
          RaceRequestRead("update_task", id, upd)
    \/ RaceRequestSave
    \/ RaceResponseRead

SpecRace == InitCascade /\ [][NextRace]_vars

(* ------------------ the entity services, on any identifier -------------- *)

\* ProjectService.delete_project(project_id): get_project_by_id returns
\* None for an identifier ObjectId() rejects and raises 404 for one no
\* active project carries; the flag is then set on what it returned, with
\* no try block around it or around the save
delete_project(id, F) ==
    IF id = MalformedId
      THEN Commit(World, "delete_project", id, FALSE, FALSE, "error")
    ELSE IF ~ActiveProject(World, id)
      THEN Commit(World, "delete_project", id, FALSE, FALSE, "http404")
    ELSE IF <<"project", id>> \in F
      THEN Commit([World EXCEPT !.attempts = <<<<"project", id>>>>],
                  "delete_project", id, FALSE, FALSE, "error")
    ELSE Commit([World EXCEPT !.projects[id].is_deleted = TRUE,
                              !.attempts = <<<<"project", id>>>>,
                              !.writes = <<<<"project", id>>>>],
                "delete_project", id, FALSE, TRUE, "")

\* SprintService.delete_sprint(sprint_id), written like delete_project
delete_sprint(id, F) ==
    IF id = MalformedId
      THEN Commit(World, "delete_sprint", id, FALSE, FALSE, "error")
    ELSE IF ~ActiveSprint(World, id)
      THEN Commit(World, "delete_sprint", id, FALSE, FALSE, "http404")
    ELSE IF <<"sprint", id>> \in F
      THEN Commit([World EXCEPT !.attempts = <<<<"sprint", id>>>>],
                  "delete_sprint", id, FALSE, FALSE, "error")
    ELSE Commit([World EXCEPT !.sprints[id].is_deleted = TRUE,
                              !.attempts = <<<<"sprint", id>>>>,
                              !.writes = <<<<"sprint", id>>>>],
                "delete_sprint", id, FALSE, TRUE, "")

\* ServiceCenterService.delete_service_center(service_center_id), written
\* like delete_project
delete_service_center(id, F) ==
    IF id = MalformedId
      THEN Commit(World, "delete_service_center", id, FALSE, FALSE, "error")
    ELSE IF ~ActiveCenter(World, id)
      THEN Commit(World, "delete_service_center", id, FALSE, FALSE, "http404")
    ELSE IF <<"center", id>> \in F
      THEN Commit([World EXCEPT !.attempts = <<<<"center", id>>>>],
                  "delete_service_center", id, FALSE, FALSE, "error")
    ELSE Commit([World EXCEPT !.centers[id].is_deleted = TRUE,
                              !.attempts = <<<<"center", id>>>>,
                              !.writes = <<<<"center", id>>>>],
                "delete_service_center", id, FALSE, TRUE, "")

\* the requests update_sprint is driven with: the status is left unset (the
\* empty string) or set
SprintUpdates == [status : {"", "Done"}]

\* SprintService.update_sprint(sprint_update): with the None that
\* get_sprint_by_id returns for a malformed identifier, setattr raises as
\* soon as the request carries a field, and save(None) raises inside the
\* try block (400) when it carries none
update_sprint(id, upd, F) ==
    IF id = MalformedId
      THEN Commit(World, "update_sprint", id, FALSE, FALSE,
                  IF upd.status # "" THEN "error" ELSE "http400")
    ELSE IF ~ActiveSprint(World, id)
      THEN Commit(World, "update_sprint", id, FALSE, FALSE, "http404")
    ELSE IF <<"sprint", id>> \in F
      THEN Commit([World EXCEPT !.attempts = <<<<"sprint", id>>>>],
                  "update_sprint", id, FALSE, FALSE, "http400")
    ELSE Commit([World EXCEPT
                   !.sprints[id].status = IF upd.status # "" THEN upd.status ELSE @,
                   !.attempts = <<<<"sprint", id>>>>,
                   !.writes = <<<<"sprint", id>>>>],
                "update_sprint", id, FALSE, TRUE, "")

\* the update and delete methods of the project, sprint and service center
\* services on a populated tree, one request at a time, on stored, unknown
\* and malformed identifiers
NextEntity ==
    \/ Idle /\ \E id \in ProjectIds \cup BadIds :
          \E F \in FailureOf("project", id) : delete_project(id, F)
    \/ Idle /\ \E id \in ProjectIds \cup BadIds :
          \E r \in RelevantInputs(ActiveProject(World, id), ProjectUpdates) :
             \E F \in Failures(ProjectUpdateAttempts(id)) : UpdateProject(id, r, F)
    \/ Idle /\ \E id \in SprintIds \cup BadIds :
          \E F \in FailureOf("sprint", id) : delete_sprint(id, F)
    \/ Idle /\ \E id \in SprintIds \cup BadIds, upd \in SprintUpdates :
          \E F \in FailureOf("sprint", id) : update_sprint(id, upd, F)
    \/ Idle /\ \E id \in CenterIds \cup BadIds :
          \E F \in FailureOf("center", id) : delete_service_center(id, F)
    \/ ResponseRead

SpecEntity == InitCascade /\ [][NextEntity]_vars

(* ------------------------- the pass, run again -------------------------- *)

\* the saves a pass over the project issues when nothing fails
PassAttempts(id) ==
    [i \in 1..Len(TasksOfProject(World, id)) |-> <<"task", TasksOfProject(World, id)[i]>>]

\* _recalculate_project_tasks(project_id) called again, with the ratio as it
\* is stored, right after an update_project whose pass has returned True
RecalculateAgain(F) ==
    /\ last.op = "update_project"
    /\ last.ok
    /\ last.inner
    /\ <<"recalculate", last.id, FALSE>> \in Range(last.calls)
    /\ LET w == RecalculateProjectTasks(World, last.id, F)
       IN  Commit(w, "_recalculate_project_tasks", last.id, FALSE, w.ok, "")

\* the edits and project updates of NextRecalc, and the pass run a second
\* time after an update that has run it
NextRecalcTwice ==
    \/ NextRecalc
    \/ \E F \in Failures(PassAttempts(last.id)) : RecalculateAgain(F)

SpecRecalcTwice == InitCascade /\ [][NextRecalcTwice]_vars

Spec == Init /\ [][Next]_vars

SpecSprintMetrics == InitSprintMetrics /\ [][NextSprintMetrics]_vars

SpecTaskMetrics == InitTaskMetrics /\ [][NextTaskMetrics]_vars

SpecRecalc == InitCascade /\ [][NextRecalc]_vars

SpecMetrics == Init /\ [][NextMetrics]_vars

SpecCascade == InitCascade /\ [][NextCascade]_vars

(* ------------------------------ properties ------------------------------ *)

\* the operation of this step was a cascade delete through a route that
\* returned true and in which every save() issued succeeded
CleanCascade(op, id) ==
    /\ last'.op = op
    /\ last'.id = id
    /\ last'.ok
    /\ last'.attempts = last'.writes

\* the sprint s lies below the root (kind, id)
SprintBelow(s, kind, id) ==
    \/ kind = "DELETE /projects" /\ sprints[s].projectId = id
    \/ /\ kind = "DELETE /service-centers"
       /\ sprints[s].projectId \in DOMAIN projects
       /\ projects[sprints[s].projectId].centerId = id

\* the task t lies below the root (kind, id)
TaskBelow(t, kind, id) ==
    \/ kind = "DELETE /sprints" /\ tasks[t].sprintId = id
    \/ /\ kind # "DELETE /sprints"
       /\ tasks[t].sprintId \in DOMAIN sprints
       /\ SprintBelow(tasks[t].sprintId, kind, id)

\* the root of a cascade requested through a route is deleted, not as a
\* cascade victim
RootDirectlyDeleted(kind, id) ==
    /\ kind = "DELETE /sprints" =>
          sprints'[id].is_deleted /\ ~IsCascadeDeleted(sprints'[id])
    /\ kind = "DELETE /projects" =>
          projects'[id].is_deleted /\ ~IsCascadeDeleted(projects'[id])
    /\ kind = "DELETE /service-centers" =>
          centers'[id].is_deleted /\ ~centers'[id].is_cascade_deleted

\* after the step every project, sprint and task that was below the root and
\* not deleted is deleted and carries is_cascade_deleted=true
DescendantsCascadeDeleted(kind, id) ==
    /\ \A p \in DOMAIN projects :
          (kind = "DELETE /service-centers" /\ projects[p].centerId = id
           /\ ~projects[p].is_deleted)
          => projects'[p].is_deleted /\ IsCascadeDeleted(projects'[p])
    /\ \A s \in DOMAIN sprints :
          (SprintBelow(s, kind, id) /\ ~sprints[s].is_deleted)
          => sprints'[s].is_deleted /\ IsCascadeDeleted(sprints'[s])
    /\ \A t \in DOMAIN tasks :
          (TaskBelow(t, kind, id) /\ ~tasks[t].is_deleted)
          => tasks'[t].is_deleted /\ IsCascadeDeleted(tasks'[t])

\* C1: after a cascade delete that returned true with no failed write, every
\* previously non-deleted project, sprint and task anywhere below the root is
\* deleted and flagged cascade-deleted, and the root is deleted and not
\* flagged.
C1_CascadeCompleteness ==
    [][\A kind \in CascadeRoutes, id \in CenterIds \cup ProjectIds \cup SprintIds :
          CleanCascade(kind, id)
          => RootDirectlyDeleted(kind, id) /\ DescendantsCascadeDeleted(kind, id)]_vars

\* the documents of every collection, by flag
CascadeFlagged ==
    {<<"center", c>> : c \in {x \in DOMAIN centers : IsCascadeDeleted(centers[x])}}
    \cup {<<"project", p>> : p \in {x \in DOMAIN projects : IsCascadeDeleted(projects[x])}}
    \cup {<<"sprint", x>> : x \in {y \in DOMAIN sprints : IsCascadeDeleted(sprints[y])}}
    \cup {<<"task", t>> : t \in {x \in DOMAIN tasks : IsCascadeDeleted(tasks[x])}}
    \cup {<<"sprintAct", a>> : a \in {x \in DOMAIN sprintActs : IsCascadeDeleted(sprintActs[x])}}
    \cup {<<"projectAct", a>> : a \in {x \in DOMAIN projectActs : IsCascadeDeleted(projectActs[x])}}

Deleted ==
    {<<"center", c>> : c \in {x \in DOMAIN centers : centers[x].is_deleted}}
    \cup {<<"project", p>> : p \in {x \in DOMAIN projects : projects[x].is_deleted}}
    \cup {<<"sprint", x>> : x \in {y \in DOMAIN sprints : sprints[y].is_deleted}}
    \cup {<<"task", t>> : t \in {x \in DOMAIN tasks : tasks[x].is_deleted}}
    \cup {<<"sprintAct", a>> : a \in {x \in DOMAIN sprintActs : sprintActs[x].is_deleted}}
    \cup {<<"projectAct", a>> : a \in {x \in DOMAIN projectActs : projectActs[x].is_deleted}}

\* C2: in every reachable state every entity flagged is_cascade_deleted is
\* also flagged is_deleted, whatever deletes, updates and recalculations ran.
C2_CascadeFlagImpliesDeleted == CascadeFlagged \subseteq Deleted

\* a recalculation has just run in a store holding a cascade-deleted task
\* next to a directly deleted sprint
C2_Witness ==
    /\ last.op = "update_project"
    /\ last.calls # <<>>
    /\ \E t \in DOMAIN tasks :
          /\ tasks[t].is_cascade_deleted
          /\ sprints[tasks[t].sprintId].is_deleted
          /\ ~IsCascadeDeleted(sprints[tasks[t].sprintId])

\* the collections other than tasks are left as they were
OthersUnchanged ==
    UNCHANGED <<centers, projects, sprints, sprintActs, projectActs>>

\* C3: when a child task's write fails during deleteSprintWithCascade on an
\* existing sprint, that task stays as it was, every non-deleted child task
\* and activity of the sprint is still attempted with isCascade=true, and the
\* call returns true exactly when the sprint's own write succeeded.
C3_PartialFailureTolerance ==
    [][\A s \in DOMAIN sprints :
          (last'.op = "DELETE /sprints" /\ last'.id = s /\ ~sprints[s].is_deleted)
          =>
          /\ \A t \in DOMAIN tasks :
                (tasks[t].sprintId = s /\ ~tasks[t].is_deleted)
                => /\ <<"deleteTask", t, TRUE>> \in Range(last'.calls)
                   /\ <<"task", t>> \in Range(last'.attempts)
                   /\ (<<"task", t>> \notin Range(last'.writes) => tasks'[t] = tasks[t])
          /\ \A a \in DOMAIN sprintActs :
                (sprintActs[a].sprintId = s /\ ~sprintActs[a].is_deleted)
                => /\ <<"deleteSprintAct", a, TRUE>> \in Range(last'.calls)
                   /\ <<"sprintAct", a>> \in Range(last'.attempts)
          /\ last'.ok = (<<"sprint", s>> \in Range(last'.writes))
          /\ last'.ok = sprints'[s].is_deleted]_vars

\* a sprint cascade returned true although the write of one child task
\* failed, and a later child task was still written
C3_Witness ==
    /\ last.op = "DELETE /sprints"
    /\ last.ok
    /\ \E t1, t2 \in DOMAIN tasks :
          /\ t1 < t2
          /\ <<"task", t1>> \in Range(last.attempts) \ Range(last.writes)
          /\ <<"task", t2>> \in Range(last.writes)
          /\ ~tasks[t1].is_deleted
          /\ tasks[t2].is_cascade_deleted
    /\ sprints[last.id].is_deleted

\* this step is an update_project of project id that stored a new ratio
\* above zero and whose recalculation pass ran to its end
RatioChanged(id) ==
    /\ last'.op = "update_project"
    /\ last'.id = id
    /\ last'.ok
    /\ projects'[id].ratio # projects[id].ratio
    /\ projects'[id].ratio > 0
    /\ last'.inner

\* timeRemaining after the pass: reset to the new technicalLoad when it
\* equalled the previous technicalLoad, kept otherwise
TimeRemainingSynced(t) ==
    /\ tasks[t].timeRemaining = tasks[t].technicalLoad
       => tasks'[t].timeRemaining = tasks'[t].technicalLoad
    /\ tasks[t].timeRemaining # tasks[t].technicalLoad
       => tasks'[t].timeRemaining = tasks[t].timeRemaining

DerivedFieldsConsistent(task, r) ==
    LET remaining == IF task.timeRemaining = None THEN 0 ELSE task.timeRemaining
        total == task.timeSpent + remaining
    IN  /\ task.technicalLoad = RoundDiv(100 * task.storyPoints, r)
        /\ task.delta = task.technicalLoad - total
        /\ task.progress = IF total = 0 THEN 0 ELSE (100 * task.timeSpent) \div total

\* C5: after create_task, update_task or a completed recalculation, every
\* stored non-deleted task the operation wrote has technicalLoad, delta and
\* progress consistent with the timeSpent and timeRemaining stored with it.
C5_DerivedFieldConsistency ==
    (last.ok /\ (last.op \in {"create_task", "update_task"}
                 \/ (last.op = "update_project" /\ last.inner)))
    => \A t \in DOMAIN tasks :
          (<<"task", t>> \in Range(last.writes)
           /\ ~tasks[t].is_deleted
           /\ projects[tasks[t].projectId].ratio > 0)
          => DerivedFieldsConsistent(tasks[t], projects[tasks[t].projectId].ratio)

\* C6: when the recalculation pass of a project update fails, the update does
\* not complete normally: it raises and does not report success.
C6_RecalculationFailurePropagates ==
    [][(/\ last'.op = "update_project"
        /\ <<"recalculate", last'.id, FALSE>> \in Range(last'.calls)
        /\ ~last'.inner)
       => (~last'.ok /\ last'.raised # "")]_vars

\* the whole store is left as it was
StoreUnchanged ==
    UNCHANGED <<centers, projects, sprints, tasks, sprintActs, projectActs>>

DeletedExactly(id, isCascade) ==
    /\ tasks' = [tasks EXCEPT ![id].is_deleted = TRUE,
                              ![id].is_cascade_deleted = isCascade]
    /\ OthersUnchanged
    /\ last'.writes = <<<<"task", id>>>>
    /\ last'.attempts = <<<<"task", id>>>>
    /\ last'.ok

\* C8: deleteTask(id, isCascade) on a non-deleted task whose write succeeds
\* sets is_deleted and is_cascade_deleted=isCascade on that task only, with
\* one write, and returns true; through DELETE /tasks/{id} the flag is false.
C8_DeleteTaskEffect ==
    [][\A id \in TaskIds :
          /\ (last'.op = "deleteTask" /\ last'.id = id /\ id \in DOMAIN tasks
              /\ ~tasks[id].is_deleted /\ last'.attempts = last'.writes)
             => DeletedExactly(id, last'.isCascade)
          /\ (last'.op = "DELETE /tasks" /\ last'.id = id /\ last'.ok)
             => DeletedExactly(id, FALSE)]_vars

\* DELETE /tasks/{id} has deleted one task directly while another task is
\* still active
C8_Witness ==
    /\ last.op = "DELETE /tasks"
    /\ last.ok
    /\ last.id \in DOMAIN tasks
    /\ tasks[last.id].is_deleted
    /\ ~tasks[last.id].is_cascade_deleted
    /\ \E t \in DOMAIN tasks : t # last.id /\ ~tasks[t].is_deleted

\* the engine method an operation enters first, and whether its target is
\* absent under the non-deleted filter (a malformed id is always absent)
EngineEntryAbsent(op, id) ==
    \/ op = "deleteTask" /\ (id \notin DOMAIN tasks \/ tasks[id].is_deleted)
    \/ op = "DELETE /sprints" /\ (id \notin DOMAIN sprints \/ sprints[id].is_deleted)
    \/ op = "DELETE /projects" /\ (id \notin DOMAIN projects \/ projects[id].is_deleted)
    \/ op = "DELETE /service-centers"
       /\ (id \notin DOMAIN centers \/ centers[id].is_deleted)

\* C9: deleteTask and the three cascade deletes return false, without
\* raising, without a store write and without a child delete, when the
\* target is absent under the non-deleted filter or the id is malformed.
C9_AbsentTargetReturnsFalse ==
    [][EngineEntryAbsent(last'.op, last'.id)
       => /\ ~last'.ok
          /\ ~last'.inner
          /\ last'.raised = (IF last'.op = "deleteTask" THEN "" ELSE "http404")
          /\ last'.attempts = <<>>
          /\ last'.writes = <<>>
          /\ Len(last'.calls) = 1
          /\ StoreUnchanged]_vars

\* a cascade delete on an already deleted sprint that still has an active
\* task has returned false without touching the task
C9_Witness ==
    /\ last.op = "DELETE /sprints"
    /\ last.id \in DOMAIN sprints
    /\ sprints[last.id].is_deleted
    /\ ~last.ok
    /\ Len(last.calls) = 1
    /\ \E t \in DOMAIN tasks : tasks[t].sprintId = last.id /\ ~tasks[t].is_deleted

\* C10: in every step every stored entity stays stored, and an entity whose
\* is_deleted is true keeps is_deleted true.
C10_SoftDeletePermanent ==
    [][/\ DOMAIN centers \subseteq DOMAIN centers'
       /\ DOMAIN projects \subseteq DOMAIN projects'
       /\ DOMAIN sprints \subseteq DOMAIN sprints'
       /\ DOMAIN tasks \subseteq DOMAIN tasks'
       /\ DOMAIN sprintActs \subseteq DOMAIN sprintActs'
       /\ DOMAIN projectActs \subseteq DOMAIN projectActs'
       /\ Deleted \subseteq Deleted']_vars

\* a recalculation pass has run over a project that holds a deleted task
C10_Witness ==
    /\ last.op = "update_project"
    /\ last.ok
    /\ last.inner
    /\ \E t \in DOMAIN tasks :
          /\ tasks[t].projectId = last.id
          /\ tasks[t].is_deleted
          /\ ~tasks[t].is_cascade_deleted

\* the documents a cascade on the sprint s visits below it: its non-deleted
\* tasks and activities
SubtreeOfSprint(s) ==
    {<<"task", t>> : t \in {x \in DOMAIN tasks :
                               tasks[x].sprintId = s /\ ~tasks[x].is_deleted}}
    \cup {<<"sprintAct", a>> : a \in {x \in DOMAIN sprintActs :
                               sprintActs[x].sprintId = s /\ ~sprintActs[x].is_deleted}}

\* the documents a cascade on the project p visits below it: its non-deleted
\* sprints with what lies below each, and its non-deleted activities
SubtreeOfProject(p) ==
    UNION {{<<"sprint", s>>} \cup SubtreeOfSprint(s) :
              s \in {x \in DOMAIN sprints :
                        sprints[x].projectId = p /\ ~sprints[x].is_deleted}}
    \cup {<<"projectAct", a>> : a \in {x \in DOMAIN projectActs :
                               projectActs[x].project_id = p /\ ~projectActs[x].is_deleted}}

\* the documents a cascade on the center c visits below it
SubtreeOfCenter(c) ==
    UNION {{<<"project", p>>} \cup SubtreeOfProject(p) :
              p \in {x \in DOMAIN projects :
                        projects[x].centerId = c /\ ~projects[x].is_deleted}}

\* what lies below a document in the store before the call
SubtreeOf(doc) ==
    IF doc[1] = "sprint" THEN SubtreeOfSprint(doc[2])
    ELSE IF doc[1] = "project" THEN SubtreeOfProject(doc[2])
    ELSE IF doc[1] = "center" THEN SubtreeOfCenter(doc[2])
    ELSE {}

\* the document a cascade route deletes last
RootOf(op, id) ==
    IF op = "DELETE /sprints" THEN <<"sprint", id>>
    ELSE IF op = "DELETE /projects" THEN <<"project", id>>
    ELSE <<"center", id>>

\* the sequence of save() calls is a post-order walk: the save of each
\* document comes directly after the saves of everything below it, each
\* issued once
PostOrder(attempts) ==
    \A i \in DOMAIN attempts :
       LET n == Cardinality(SubtreeOf(attempts[i]))
       IN  /\ i > n
           /\ {attempts[j] : j \in (i - n)..(i - 1)} = SubtreeOf(attempts[i])

\* the engine calls of the trace that are child deletes of the given method
ChildCalls(calls, method) ==
    {i \in DOMAIN calls : i > 1 /\ calls[i][1] = method}

DescendantsOfProject(p) ==
    {<<"sprint", s>> : s \in {x \in DOMAIN sprints : sprints[x].projectId = p}}
    \cup {<<"task", t>> : t \in {x \in DOMAIN tasks :
                /\ tasks[x].sprintId \in DOMAIN sprints
                /\ sprints[tasks[x].sprintId].projectId = p}}
    \cup {<<"sprintAct", a>> : a \in {x \in DOMAIN sprintActs :
                /\ sprintActs[x].sprintId \in DOMAIN sprints
                /\ sprints[sprintActs[x].sprintId].projectId = p}}
    \cup {<<"projectAct", a>> : a \in {x \in DOMAIN projectActs :
                projectActs[x].project_id = p}}

\* the documents a query result names, whatever its keys
ResultDocs(result) ==
    IF DOMAIN result = {} THEN {}
    ELSE {<<"sprint", s>> : s \in result.sprints}
         \cup {<<"task", t>> : t \in result.tasks}
         \cup {<<"sprintAct", a>> : a \in result.sprint_transversal_activities}
         \cup {<<"projectAct", a>> : a \in result.project_transversal_activities}

\* the kind of document an engine method saves
KindOf(method) ==
    IF method = "deleteTask" THEN "task"
    ELSE IF method = "deleteSprintAct" THEN "sprintAct"
    ELSE IF method = "deleteProjectAct" THEN "projectAct"
    ELSE IF method = "deleteSprint" THEN "sprint"
    ELSE IF method = "deleteProject" THEN "project"
    ELSE "center"

\* the documents the call of this step has saved with is_cascade_deleted
\* true: saved from an engine method that was entered with isCascade=true,
\* and carrying the flag afterwards
FlaggedByCall ==
    {d \in Range(last'.writes) \cap CascadeFlagged' :
        \E i \in DOMAIN last'.calls :
           /\ KindOf(last'.calls[i][1]) = d[1]
           /\ last'.calls[i][2] = d[2]
           /\ last'.calls[i][3] = TRUE}

\* what the audit query on the project p would return in this state
AuditNow(p) == ResultDocs(GetCascadeDeletedElements(World, "project", p))

ChangedDocs ==
    {<<"center", c>> : c \in {x \in DOMAIN centers : centers'[x] # centers[x]}}
    \cup {<<"project", p>> : p \in {x \in DOMAIN projects : projects'[x] # projects[x]}}
    \cup {<<"sprint", s>> : s \in {x \in DOMAIN sprints : sprints'[x] # sprints[x]}}
    \cup {<<"task", t>> : t \in {x \in DOMAIN tasks : tasks'[x] # tasks[x]}}
    \cup {<<"sprintAct", a>> : a \in {x \in DOMAIN sprintActs : sprintActs'[x] # sprintActs[x]}}
    \cup {<<"projectAct", a>> : a \in {x \in DOMAIN projectActs :
                                          projectActs'[x] # projectActs[x]}}

\* the document an engine delete is aimed at, by operation
TargetOf(op, id) ==
    IF op \in {"deleteTask", "DELETE /tasks"} THEN <<"task", id>>
    ELSE IF op = "deleteSprintAct" THEN <<"sprintAct", id>>
    ELSE IF op = "deleteProjectAct" THEN <<"projectAct", id>>
    ELSE IF op = "DELETE /sprints" THEN <<"sprint", id>>
    ELSE <<"project", id>>

DownwardOps ==
    {"deleteTask", "DELETE /tasks", "deleteSprintAct", "deleteProjectAct",
     "DELETE /sprints", "DELETE /projects"}

\* the same documents are stored before and after the step
SameDocuments ==
    /\ DOMAIN centers' = DOMAIN centers
    /\ DOMAIN projects' = DOMAIN projects
    /\ DOMAIN sprints' = DOMAIN sprints
    /\ DOMAIN tasks' = DOMAIN tasks
    /\ DOMAIN sprintActs' = DOMAIN sprintActs
    /\ DOMAIN projectActs' = DOMAIN projectActs

\* C13: deleteTask, deleteTransversalActivity, deleteSprintWithCascade and
\* deleteProjectWithCascade change no document other than the target and
\* what lies below it: every ancestor and every document outside the
\* target's subtree is stored as before; a sprint with no non-deleted child
\* is deleted with exactly one write, of the sprint itself.
C13_DeletionFlowsDownward ==
    [][\A op \in DownwardOps :
          last'.op = op
          => LET target == TargetOf(op, last'.id)
             IN  /\ SameDocuments
                 /\ ChangedDocs \subseteq {target} \cup SubtreeOf(target)
                 /\ Range(last'.attempts) \subseteq {target} \cup SubtreeOf(target)
                 /\ centers' = centers
                 /\ op # "DELETE /projects" => projects' = projects
                 /\ op \notin {"DELETE /projects", "DELETE /sprints"} => sprints' = sprints
                 /\ (op = "DELETE /sprints" /\ ~EngineEntryAbsent(op, last'.id)
                     /\ SubtreeOf(target) = {})
                    => last'.attempts = <<target>>]_vars

\* a sprint whose children were all deleted before has been deleted with one
\* write while its project and center stay active
C13_Witness ==
    /\ last.op = "DELETE /sprints"
    /\ last.ok
    /\ last.writes = <<<<"sprint", last.id>>>>
    /\ sprints[last.id].is_deleted
    /\ ~projects[sprints[last.id].projectId].is_deleted
    /\ \A c \in DOMAIN centers : ~centers[c].is_deleted
    /\ \E t \in DOMAIN tasks : tasks[t].sprintId = last.id

\* C14: after deleteProjectWithCascade on a project has returned true with
\* no failed write, every previously non-deleted sprint activity under the
\* project's sprints and every previously non-deleted project activity of
\* the project is deleted and carries is_cascade_deleted=true.
C14_ActivityCompleteness ==
    [][\A p \in ProjectIds :
          CleanCascade("DELETE /projects", p)
          => /\ \A a \in DOMAIN sprintActs :
                   (/\ ~sprintActs[a].is_deleted
                    /\ sprintActs[a].sprintId \in DOMAIN sprints
                    /\ sprints[sprintActs[a].sprintId].projectId = p)
                   => sprintActs'[a].is_deleted /\ IsCascadeDeleted(sprintActs'[a])
             /\ \A a \in DOMAIN projectActs :
                   (~projectActs[a].is_deleted /\ projectActs[a].project_id = p)
                   => projectActs'[a].is_deleted /\ IsCascadeDeleted(projectActs'[a])]_vars

\* the store as it was before the saves in `written` were made by a cascade:
\* a cascade saves only documents that were not deleted
BeforeWrites(written) ==
    [World EXCEPT
       !.centers = [x \in DOMAIN centers |->
           IF <<"center", x>> \in written
             THEN [centers[x] EXCEPT !.is_deleted = FALSE] ELSE centers[x]],
       !.projects = [x \in DOMAIN projects |->
           IF <<"project", x>> \in written
             THEN [projects[x] EXCEPT !.is_deleted = FALSE] ELSE projects[x]],
       !.sprints = [x \in DOMAIN sprints |->
           IF <<"sprint", x>> \in written
             THEN [sprints[x] EXCEPT !.is_deleted = FALSE] ELSE sprints[x]],
       !.tasks = [x \in DOMAIN tasks |->
           IF <<"task", x>> \in written
             THEN [tasks[x] EXCEPT !.is_deleted = FALSE, !.is_cascade_deleted = FALSE]
             ELSE tasks[x]],
       !.sprintActs = [x \in DOMAIN sprintActs |->
           IF <<"sprintAct", x>> \in written
             THEN [sprintActs[x] EXCEPT !.is_deleted = FALSE] ELSE sprintActs[x]],
       !.projectActs = [x \in DOMAIN projectActs |->
           IF <<"projectAct", x>> \in written
             THEN [projectActs[x] EXCEPT !.is_deleted = FALSE] ELSE projectActs[x]]]

\* the collections of a world, and the collections after this step
StoreOf(w) == <<w.centers, w.projects, w.sprints, w.tasks, w.sprintActs, w.projectActs>>

StoreNext == <<centers', projects', sprints', tasks', sprintActs', projectActs'>>

\* C15: when a cascade delete was cut off after some of its saves and before
\* the save of its root, and the same request is sent again and runs to its
\* end with every save succeeding, it returns true and the store ends as one
\* uninterrupted call on the original store would have left it.
C15_ResumeInterruptedCascade ==
    [][(/\ last.op \in InterruptedOps
        /\ last'.resumed
        /\ last'.op = ResumedRoute
        /\ last'.id = last.id
        /\ last'.attempts = last'.writes)
       => /\ last'.ok
          /\ StoreNext = StoreOf(RunCascade(BeforeWrites(Range(last.writes)),
                                             ResumedRoute, last.id, {}))]_vars

\* a project cascade that had stopped after it had saved a task and before
\* it saved the sprint has been sent again, and the whole tree is deleted
C15_Witness ==
    /\ last.op = "DELETE /projects"
    /\ last.resumed
    /\ last.ok
    /\ Len(last.writes) >= 3
    /\ last.writes[1][1] = "task"
    /\ \E t \in DOMAIN tasks :
          /\ <<"task", t>> \notin Range(last.writes)
          /\ tasks[t].is_cascade_deleted
          /\ <<"sprint", tasks[t].sprintId>> \in Range(last.writes)
    /\ \A t \in DOMAIN tasks : tasks[t].is_deleted
    /\ \A s \in DOMAIN sprints : sprints[s].is_deleted
    /\ \A c \in DOMAIN centers : ~centers[c].is_deleted

\* this step is an update_project of project id that stored a different
\* ratio above zero and in whose recalculation pass the save of task k failed
RecalculationFailedAt(id, k) ==
    /\ last'.op = "update_project"
    /\ last'.id = id
    /\ <<"project", id>> \in Range(last'.writes)
    /\ <<"recalculate", id, FALSE>> \in Range(last'.calls)
    /\ projects'[id].ratio > 0
    /\ <<"task", k>> \in Range(last'.attempts) \ Range(last'.writes)

\* C16: when the save of the k-th task fails during a ratio-triggered
\* recalculation pass, every task processed before it is stored with the
\* technicalLoad of the new ratio, the k-th and every later task are stored
\* as they were, no save is issued after the failed one, and the project
\* keeps the new ratio.
C16_NoCrossTaskAtomicity ==
    [][\A id \in ProjectIds, k \in TaskIds :
          RecalculationFailedAt(id, k)
          => /\ projects'[id].ratio # projects[id].ratio
             /\ last'.attempts[Len(last'.attempts)] = <<"task", k>>
             /\ \A t \in DOMAIN tasks :
                   (tasks[t].projectId = id /\ ~tasks[t].is_deleted)
                   => /\ t < k =>
                           /\ <<"task", t>> \in Range(last'.writes)
                           /\ tasks'[t].technicalLoad
                                 = RoundDiv(100 * tasks[t].storyPoints, projects'[id].ratio)
                      /\ t >= k =>
                           /\ <<"task", t>> \notin Range(last'.writes)
                           /\ tasks'[t] = tasks[t]]_vars

\* the ratio went from 2 to 5, the first task was recalculated to
\* technicalLoad 2 and the save of the second failed, which keeps 5
C16_Witness ==
    /\ last.op = "update_project"
    /\ last.id \in DOMAIN projects
    /\ projects[last.id].ratio = 5
    /\ \E t1, t2 \in DOMAIN tasks :
          /\ t1 < t2
          /\ <<"task", t1>> \in Range(last.writes)
          /\ <<"task", t2>> \in Range(last.attempts) \ Range(last.writes)
          /\ tasks[t1].storyPoints = 10 /\ tasks[t1].technicalLoad = 200
          /\ tasks[t2].storyPoints = 10 /\ tasks[t2].technicalLoad = 500

\* the recalculation pass ran in this step
RecalculationRan(id) == <<"recalculate", id, FALSE>> \in Range(last'.calls)

\* C17: in an update of a project, the recalculation pass runs exactly when
\* the project is saved with a ratio different from the stored one; the save
\* of the project is then the first write and every task write follows it
\* and is computed from the new ratio; an update that leaves the ratio as it
\* was writes the project and nothing else, and an update whose project save
\* fails runs no pass and writes nothing.
C17_RecalculationTrigger ==
    [][\A id \in ProjectIds :
          (last'.op = "update_project" /\ last'.id = id /\ ~projects[id].is_deleted)
          => IF <<"project", id>> \in Range(last'.writes)
               THEN /\ last'.writes[1] = <<"project", id>>
                    /\ \A i \in 2..Len(last'.writes) : last'.writes[i][1] = "task"
                    /\ RecalculationRan(id) <=> projects'[id].ratio # projects[id].ratio
                    /\ RecalculationRan(id) =>
                          \A t \in DOMAIN tasks :
                             (<<"task", t>> \in Range(last'.writes)
                              /\ projects'[id].ratio > 0)
                             => tasks'[t].technicalLoad
                                  = RoundDiv(100 * tasks[t].storyPoints,
                                             projects'[id].ratio)
                    /\ ~RecalculationRan(id) =>
                          /\ last'.writes = <<<<"project", id>>>>
                          /\ tasks' = tasks
               ELSE /\ ~RecalculationRan(id)
                    /\ last'.writes = <<>>
                    /\ UNCHANGED <<projects, tasks>>]_vars

\* an update stored ratio 3 on the project and then wrote every task of it
\* with the technicalLoad of ratio 3
C17_Witness ==
    /\ last.op = "update_project"
    /\ last.ok
    /\ last.id \in DOMAIN projects
    /\ projects[last.id].ratio = 3
    /\ <<"recalculate", last.id, FALSE>> \in Range(last.calls)
    /\ last.writes[1] = <<"project", last.id>>
    /\ Len(last.writes) = 1 + Cardinality(DOMAIN tasks)
    /\ \A t \in DOMAIN tasks : /\ tasks[t].storyPoints = 10
                               /\ tasks[t].technicalLoad = 333

\* the call of this step computed the metrics of a task with a numeric
\* timeSpent under a ratio above zero
TaskMetricsCall ==
    /\ last'.op = "calculate_task_metrics"
    /\ projects[tasks[last'.id].projectId].ratio > 0
    /\ tasks[last'.id].timeSpent # None

\* timeSpent + timeRemaining of the task the call was made on, a missing
\* timeRemaining counting as zero
UpdatedTimeOf(id) ==
    tasks[id].timeSpent
      + (IF tasks[id].timeRemaining # None THEN tasks[id].timeRemaining ELSE 0)

\* h is n / d rounded to the nearest unit
Nearest(h, n, d) == 2 * h * d - 2 * n <= d /\ 2 * n - 2 * h * d <= d

SprintMetricsCallOnNoTask ==
    /\ last'.op = "calculate_sprint_metrics"
    /\ \A t \in DOMAIN tasks : tasks[t].sprintId # last'.id \/ tasks[t].is_deleted

\* the weekdays from the earlier to the later of the two dates of sprint s,
\* the later one not counted
WeekdaysOf(s) ==
    LET lo == IF sprints[s].startDate <= sprints[s].dueDate
                THEN sprints[s].startDate ELSE sprints[s].dueDate
        hi == IF sprints[s].startDate <= sprints[s].dueDate
                THEN sprints[s].dueDate ELSE sprints[s].startDate
    IN  Cardinality({d \in lo..(hi - 1) : d % 7 < 5})

\* C19 as stated: the metrics of a sprint without tasks have progress 100,
\* otd, oqd, scoped and velocity 0 and the duration of the sprint dates.
C19_Original ==
    [][SprintMetricsCallOnNoTask
       => /\ ~last'.result.raised
          /\ last'.result.progress = 100
          /\ last'.result.otd = 0 /\ last'.result.oqd = 0
          /\ last'.result.scoped = 0 /\ last'.result.velocity = 0
          /\ last'.result.duration = WeekdaysOf(last'.id)]_vars

\* C19: the metrics of a sprint without tasks have progress 0, otd, oqd,
\* scoped, velocity and time_spent 0, and the duration computed from the
\* sprint dates.
C19_EmptySprintMetrics ==
    [][SprintMetricsCallOnNoTask
       => /\ ~last'.result.raised
          /\ last'.result.progress = 0
          /\ last'.result.otd = 0 /\ last'.result.oqd = 0
          /\ last'.result.scoped = 0 /\ last'.result.velocity = 0
          /\ last'.result.time_spent = 0
          /\ last'.result.duration = WeekdaysOf(last'.id)]_vars

\* the metrics of a DONE sprint without tasks that runs from a Wednesday to
\* the Friday of the second week after it: progress 0 and ten weekdays
C19_Witness ==
    /\ last.op = "calculate_sprint_metrics"
    /\ last.ok
    /\ tasks = <<>>
    /\ sprints[last.id].status = "Done"
    /\ sprints[last.id].startDate = 16 /\ sprints[last.id].dueDate = 2
    /\ sprintActs[1].time_spent = 150
    /\ last.result.progress = 0
    /\ last.result.duration = 10

\* the non-deleted tasks of sprint s
TaskIdsOf(s) == {t \in DOMAIN tasks : tasks[t].sprintId = s /\ ~tasks[t].is_deleted}

RECURSIVE StoryPointsOf(_)
\* the story points of the tasks in T, added up
StoryPointsOf(T) ==
    IF T = {} THEN 0
    ELSE LET t == CHOOSE x \in T : TRUE
         IN  tasks[t].storyPoints + StoryPointsOf(T \ {t})

\* C20 as stated: the scoped value the sprint metrics return is the sum of
\* the story points of the tasks of the sprint that are not CANCELLED.
C20_Original ==
    [][last'.op = "calculate_sprint_metrics" /\ ~last'.result.raised
       => last'.result.scoped
            = StoryPointsOf({t \in TaskIdsOf(last'.id) : tasks[t].status # "CANCEL"})]_vars

\* C20: the scoped value the sprint metrics return is the sum of the story
\* points of all the tasks of the sprint, the CANCELLED ones included.
C20_ScopedAllTasks ==
    [][last'.op = "calculate_sprint_metrics" /\ ~last'.result.raised
       => last'.result.scoped = StoryPointsOf(TaskIdsOf(last'.id))]_vars

\* the metrics of a sprint with a task of 10 story points and a CANCELLED
\* task of 3 story points: scoped is 13
C20_Witness ==
    /\ last.op = "calculate_sprint_metrics"
    /\ last.ok
    /\ \E t1, t2 \in DOMAIN tasks :
          /\ DOMAIN tasks = {t1, t2}
          /\ tasks[t1].status = "TODO" /\ tasks[t1].storyPoints = 10
          /\ tasks[t2].status = "CANCEL" /\ tasks[t2].storyPoints = 3
    /\ last.result.scoped = 13

\* C21: the sprint metrics return an otd that is 100 * velocity / scoped when
\* the sprint is Done and scoped is above zero, and 0 in every other case,
\* so that otd and oqd are non-zero for a Done sprint only; the call returns
\* these values for every task list, tasks that are DONE included.
C21_OnTimeDelivery ==
    [][last'.op = "calculate_sprint_metrics"
       => /\ ~last'.result.raised
          /\ IF sprints[last'.id].status = "Done" /\ last'.result.scoped > 0
               THEN last'.result.otd * last'.result.scoped = 100 * last'.result.velocity
               ELSE last'.result.otd = 0
          /\ (last'.result.otd # 0 \/ last'.result.oqd # 0)
               => sprints[last'.id].status = "Done"]_vars

RECURSIVE WeightedProgressOf(_)
\* the products storyPoints * progress of the tasks in T, added up
WeightedProgressOf(T) ==
    IF T = {} THEN 0
    ELSE LET t == CHOOSE x \in T : TRUE
         IN  tasks[t].storyPoints * tasks[t].progress + WeightedProgressOf(T \ {t})

\* the tasks of sprint s that are not CANCELLED
NotCancelledOf(s) == {t \in TaskIdsOf(s) : tasks[t].status # "CANCEL"}

\* C22: the progress of a sprint is the sum of storyPoints * progress over
\* its tasks that are not CANCELLED divided by the sum of their storyPoints,
\* and it is 100 whenever that sum of storyPoints is zero, for a task list
\* that is not empty too.
C22_SprintProgress ==
    [][last'.op = "calculate_progress"
       => LET total == StoryPointsOf(NotCancelledOf(last'.id))
          IN  IF total = 0
                THEN last'.result.num = 100 * last'.result.den
                ELSE last'.result.num * total
                       = last'.result.den * WeightedProgressOf(NotCancelledOf(last'.id))]_vars

\* the Monday-to-Friday dates from the earlier to the later of the two dates
\* of sprint s, both of them counted
WeekdaysInclusiveOf(s) ==
    LET lo == IF sprints[s].startDate <= sprints[s].dueDate
                THEN sprints[s].startDate ELSE sprints[s].dueDate
        hi == IF sprints[s].startDate <= sprints[s].dueDate
                THEN sprints[s].dueDate ELSE sprints[s].startDate
    IN  Cardinality({d \in lo..hi : d % 7 < 5})

\* C23: the duration the sprint metrics return is the number of
\* Monday-to-Friday dates in the closed interval between the start date and
\* the due date, whichever of the two comes first.
C23_DurationInclusive ==
    [][(last'.op = "calculate_sprint_metrics" /\ ~last'.result.raised)
       => last'.result.duration = WeekdaysInclusiveOf(last'.id)]_vars

\* C24: with a workload ratio of zero or below, calculate_task_metrics
\* returns technicalLoad 0 and does not raise, and no create_task,
\* update_task or recalculation pass fails on such a ratio.
C24_RatioGuard ==
    [][/\ (/\ last'.op = "calculate_task_metrics"
           /\ projects[tasks[last'.id].projectId].ratio <= 0
           /\ tasks[last'.id].timeSpent # None)
          => (~last'.result.raised /\ last'.result.technical_load = 0)
       /\ (/\ last'.op \in {"create_task", "update_task"}
           /\ \A p \in DOMAIN projects : projects[p].ratio <= 0)
          => last'.raised # "error"
       /\ (/\ last'.op = "update_project"
           /\ last'.id \in DOMAIN projects
           /\ <<"recalculate", last'.id, FALSE>> \in Range(last'.calls)
           /\ projects'[last'.id].ratio <= 0
           /\ last'.attempts = last'.writes)
          => last'.inner]_vars

\* this step is a create_task or update_task asked to store a DONE task of
\* a stored sprint in a project with a ratio above zero, with no save failing
DoneTaskRequested ==
    /\ last'.op \in {"create_task", "update_task"}
    /\ last'.result.status = "DONE"
    /\ last'.raised \notin {"http404", "http400"}
    /\ last'.id # MalformedId
    /\ \A p \in DOMAIN projects : projects[p].ratio > 0

\* C25: when create_task or update_task stores a task whose status is DONE
\* and which has no delivery sprint yet, the task is stored with the name of
\* its sprint as delivery sprint.
C25_AutomaticDeliverySprint ==
    [][DoneTaskRequested
       => /\ last'.ok
          /\ last'.id \in DOMAIN tasks'
          /\ tasks'[last'.id].status = "DONE"
          /\ "deliverySprint" \in DOMAIN tasks'[last'.id]
          /\ tasks'[last'.id].deliverySprint
               = sprints[tasks'[last'.id].sprintId].sprintName]_vars

\* the pass of the last update_project has returned
PassFinished == last.op = "update_project" /\ last.result # <<>>

\* C26 as stated: once a pass has finished, every task for which a
\* delete_task returned true while it ran is stored with is_deleted = TRUE.
C26_Original ==
    PassFinished => \A t \in last.result.acked : tasks[t].is_deleted

\* C26: the pass writes back the documents it read at its start (last
\* write wins). Each save of the pass stores the recalculation of the
\* document it read, with the is_deleted = FALSE it was read with, whatever
\* is stored by then; and once the pass has finished, a task for which
\* delete_task returned true while it ran is stored with is_deleted = TRUE
\* exactly when the pass has not saved that task after the delete.
C26_LastWriteWins ==
    [][/\ (Recalculating /\ Len(last'.writes) > Len(last.writes))
          => LET id == Head(last.result.todo)
             IN  /\ ~last.result.read[id].is_deleted
                 /\ ~tasks'[id].is_deleted
                 /\ tasks'[id].technicalLoad
                      = RoundDiv(10000 * last.result.read[id].storyPoints,
                                 100 * last.result.ratio)
       /\ (last'.op = "update_project" /\ last'.result # <<>>)
          => \A t \in last'.result.acked :
                tasks'[t].is_deleted <=> t \notin last'.result.overwritten]_vars

\* a pass has finished that saved, after the delete had returned true, a
\* task it had read before the delete
C26_Witness ==
    /\ PassFinished
    /\ \E t \in last.result.acked :
          /\ t \in last.result.overwritten
          /\ t \in DOMAIN last.result.read
          /\ ~tasks[t].is_deleted

\* the update and delete methods of the entity services
EntityOps ==
    {"delete_project", "update_project", "delete_sprint", "update_sprint",
     "delete_service_center"}

\* C27: delete_project, update_project, delete_sprint, update_sprint and
\* delete_service_center called with a malformed identifier end in a
\* not-found outcome (404, or a result of false with nothing raised) and
\* write nothing to the store.
C27_MalformedIdNotFound ==
    [][(last'.op \in EntityOps /\ last'.id = MalformedId)
       => /\ \/ last'.raised = "http404"
             \/ last'.raised = "" /\ ~last'.ok
          /\ last'.writes = <<>>
          /\ <<centers, projects, sprints, tasks>>'
               = <<centers, projects, sprints, tasks>>]_vars

\* the document was deleted by a direct delete: it is flagged deleted and
\* does not carry the cascade flag
DirectlyDeleted(doc) ==
    doc.is_deleted /\ ~("is_cascade_deleted" \in DOMAIN doc /\ doc.is_cascade_deleted)

\* C28: a cascade never rewrites an entity that is already deleted: every
\* sprint, task and activity that is deleted before a cascade starts is
\* stored unchanged when the cascade returns (a directly deleted one keeps
\* is_deleted = TRUE without the cascade flag), and no directly deleted
\* sprint or task is in the map getCascadeDeletedElements returns for the
\* project.
C28_CascadeSkipsDeleted ==
    [][/\ (last'.op \in CascadeRoutes \cup InterruptedOps)
          => /\ \A t \in DOMAIN tasks : tasks[t].is_deleted => tasks'[t] = tasks[t]
             /\ \A s \in DOMAIN sprints : sprints[s].is_deleted => sprints'[s] = sprints[s]
             /\ \A a \in DOMAIN sprintActs :
                   sprintActs[a].is_deleted => sprintActs'[a] = sprintActs[a]
             /\ \A a \in DOMAIN projectActs :
                   projectActs[a].is_deleted => projectActs'[a] = projectActs[a]
       /\ (last'.op = "GET /projects/cascade-deleted" /\ last'.result # <<>>)
          => /\ \A t \in last'.result.tasks : ~DirectlyDeleted(tasks[t])
             /\ \A s \in last'.result.sprints : ~DirectlyDeleted(sprints[s])]_vars

\* deleteProjectWithCascade has returned true on a project one of whose
\* tasks had been deleted directly and another of whose tasks it has
\* flagged itself
C28_Witness ==
    /\ last.op = "DELETE /projects"
    /\ last.ok
    /\ <<"deleteTask", 2, TRUE>> \in Range(last.calls)
    /\ <<"deleteTask", 1, TRUE>> \notin Range(last.calls)
    /\ DirectlyDeleted(tasks[1])
    /\ tasks[2].is_cascade_deleted

\* the task is active under a sprint that is stored as deleted
ActiveUnderDeletedSprint(t) ==
    ~tasks[t].is_deleted /\ sprints[tasks[t].sprintId].is_deleted

\* C29: a task that is still active under a sprint stored as deleted (its
\* write failed while the sprint was cascaded) is out of reach of every
\* later cascade: deleteSprintWithCascade on that sprint returns false and
\* writes nothing, a cascade from the project or the service center skips
\* the sprint and never calls deleteTask on the task, and the task becomes
\* deleted only by a delete called on the task itself.
C29_OrphanStaysActive ==
    [][\A t \in DOMAIN tasks :
          ActiveUnderDeletedSprint(t) =>
             /\ (last'.op \in CascadeRoutes \cup InterruptedOps)
                => /\ tasks'[t] = tasks[t]
                   /\ \A i \in 1..Len(last'.calls) :
                         ~(last'.calls[i][1] = "deleteTask" /\ last'.calls[i][2] = t)
                   /\ \A i \in 1..Len(last'.attempts) : last'.attempts[i] # <<"task", t>>
             /\ (last'.op = "DELETE /sprints" /\ last'.id = tasks[t].sprintId)
                => /\ ~last'.ok
                   /\ last'.attempts = <<>>
                   /\ <<sprints, tasks, sprintActs>>' = <<sprints, tasks, sprintActs>>
             /\ tasks'[t].is_deleted
                => /\ last'.op \in {"deleteTask", "DELETE /tasks", "TaskService.delete_task"}
                   /\ last'.id = t]_vars

\* deleteProjectWithCascade has returned true without entering sprint 1,
\* which an earlier cascade had stored as deleted while the write of its
\* task 1 failed: the task is still active
C29_Witness ==
    /\ last.op = "DELETE /projects"
    /\ last.ok
    /\ \A i \in 1..Len(last.calls) : last.calls[i][1] # "deleteSprint"
    /\ sprints[1].is_deleted
    /\ ~tasks[1].is_deleted
    /\ tasks[2].is_deleted

\* C30: the recalculation pass is idempotent: a second pass over the same
\* project with the same ratio, right after a pass that has saved every
\* task, stores every task with the technicalLoad, timeRemaining, delta and
\* progress it already had.
C30_RecalculationIdempotent ==
    [][(last'.op = "_recalculate_project_tasks" /\ last.op = "update_project")
       => \A t \in DOMAIN tasks :
             /\ tasks'[t].technicalLoad = tasks[t].technicalLoad
             /\ tasks'[t].timeRemaining = tasks[t].timeRemaining
             /\ tasks'[t].delta = tasks[t].delta
             /\ tasks'[t].progress = tasks[t].progress]_vars

====
